---- MODULE Spec2Model ----
(***************************************************************************)
(* pgnotes: the in-memory application state (AppState) and the key-event   *)
(* dispatch (handle_key_event) over a storage table of notes.              *)
(*                                                                         *)
(* Strings that the code inspects (titles, tags, the text buffers) are     *)
(* sequences of one-character strings, so that trim, split, join, compare  *)
(* and substring search are computed as the code computes them.  Note      *)
(* contents are opaque: the code only copies them.                         *)
(***************************************************************************)
EXTENDS Integers, Sequences, FiniteSets, TLC

(***************************************************************************)
(* Bounds of the model.                                                    *)
(***************************************************************************)
\* number of rows the storage ever hands an id to (SERIAL counter cap)
MaxId == 3
\* longest text a user types into filename_input (a pre-filled buffer may be longer)
MaxInput == 2
\* longest search query a user types
MaxQuery == 1
\* number of key events of a session
MaxKeys == 6

\* the contents the external editor may leave in the artifact
Contents == {"", "x"}

\* Option<usize>::None of ListState::selected()
NoSel == -1

(***************************************************************************)
(* String helpers (Rust str / Vec<String> methods used by the code).       *)
(***************************************************************************)
\* byte value of a character, the order String::cmp compares by
Ord(c) ==
    CASE c = " " -> 32
      [] c = "," -> 44
      [] c = "a" -> 97
      [] c = "b" -> 98
      [] OTHER -> 120

\* a.title.cmp(&b.title) == Less : lexicographic by bytes, a proper prefix is less
RECURSIVE StrLess(_, _)
StrLess(s, t) ==
    IF t = <<>> THEN FALSE
    ELSE IF s = <<>> THEN TRUE
    ELSE IF Ord(Head(s)) < Ord(Head(t)) THEN TRUE
    ELSE IF Ord(Head(s)) > Ord(Head(t)) THEN FALSE
    ELSE StrLess(Tail(s), Tail(t))

RECURSIVE TrimStart(_)
TrimStart(s) ==
    IF s # <<>> /\ Head(s) = " " THEN TrimStart(Tail(s)) ELSE s

RECURSIVE TrimEnd(_)
TrimEnd(s) ==
    IF s # <<>> /\ s[Len(s)] = " " THEN TrimEnd(SubSeq(s, 1, Len(s) - 1)) ELSE s

\* faulty variant: the text is taken as typed
Trim_Untrimmed(s) == s

\* str::trim
Trim(s) == TrimEnd(TrimStart(s))

\* str::split(','): the pieces between commas, empty pieces included
RECURSIVE SplitFrom(_, _)
SplitFrom(s, cur) ==
    IF s = <<>> THEN <<cur>>
    ELSE IF Head(s) = "," THEN <<cur>> \o SplitFrom(Tail(s), <<>>)
    ELSE SplitFrom(Tail(s), Append(cur, Head(s)))

Split(s) == SplitFrom(s, <<>>)

\* .split(',').map(|s| s.trim().to_string()).filter(|s| !s.is_empty()).collect()
RECURSIVE TrimNonEmpty(_)
TrimNonEmpty(pieces) ==
    IF pieces = <<>> THEN <<>>
    ELSE LET p == Trim(Head(pieces))
         IN  (IF p = <<>> THEN <<>> ELSE <<p>>) \o TrimNonEmpty(Tail(pieces))

\* faulty variant: the pieces are kept as split, neither trimmed nor dropped
ParseTags_Untrimmed(buf) == Split(buf)

ParseTags(buf) == TrimNonEmpty(Split(buf))

\* faulty variant: the tags are joined by a single space
RECURSIVE Join_SpaceOnly(_)
Join_SpaceOnly(tags) ==
    IF tags = <<>> THEN <<>>
    ELSE IF Len(tags) = 1 THEN tags[1]
    ELSE tags[1] \o <<" ">> \o Join_SpaceOnly(Tail(tags))

\* tags.join(", ")
RECURSIVE Join(_)
Join(tags) ==
    IF tags = <<>> THEN <<>>
    ELSE IF Len(tags) = 1 THEN tags[1]
    ELSE tags[1] \o <<",", " ">> \o Join(Tail(tags))

\* String::pop
Pop(s) == IF s = <<>> THEN s ELSE SubSeq(s, 1, Len(s) - 1)

\* str::contains(&query)
Contains(s, q) ==
    \E i \in 0..(Len(s) - Len(q)) : SubSeq(s, i + 1, i + Len(q)) = q

\* Vec::contains on a tag list
HasTag(tags, t) == \E i \in 1..Len(tags) : tags[i] = t


(***************************************************************************)
(* State.                                                                  *)
(***************************************************************************)
VARIABLES
    app,      \* the AppState struct
    db,       \* the rows of the storage table "notes"
    next_id,  \* the next value of the id SERIAL sequence
    tmp,      \* ids whose temporary artifact pgnote_<id>.md exists
    result,   \* what handle_key_event last returned: Ok(true), Ok(false) or Err
    last,     \* the last key event: the mode it was read in, the key, and the
              \* storage calls and edit flows its handler made
    keys,     \* the number of key events dispatched so far
    terminal, \* the terminal modes: raw mode, mouse capture, alternate screen
    env       \* the environment of this run: whether storage calls can fail for a
              \* reason other than a constraint violation, and the characters typed

vars == <<app, db, next_id, tmp, result, last, keys, terminal, env>>

\* enum TagFilter
FilterAll == [kind |-> "All", tag |-> <<>>]
FilterUntagged == [kind |-> "Untagged", tag |-> <<>>]
Specific(t) == [kind |-> "Specific", tag |-> t]

\* a storage error other than a constraint violation, and the UNIQUE violation on title
ConnErr == <<"connection error">>
DupErr == <<"duplicate key value violates unique constraint">>

\* the storage calls one key event can make, in order; 0: none of them fails
\* for a reason other than a constraint violation, k: the k-th one does
FailAt == IF env.faults THEN 0..4 ELSE {0}

\* status messages: the format string and its argument
Msg(text, arg) == <<text, arg>>
NoArg == <<>>

(***************************************************************************)
(* Storage (Database).                                                     *)
(***************************************************************************)
\* the rows of a table as a Vec, here in id order (the SELECT has no ORDER BY;
\* nothing in the program depends on the order of all_notes)
RECURSIVE RowsById(_)
RowsById(rows) ==
    IF rows = {} THEN <<>>
    ELSE LET r == CHOOSE x \in rows : \A y \in rows : x.id <= y.id
         IN  <<r>> \o RowsById(rows \ {r})

\* the terminal modes while the interface is drawn: the ones open_editor
\* re-establishes before it returns
Tui == [raw |-> TRUE, mouse |-> TRUE, alt |-> TRUE]

\* a dispatch context: the state a handler works on, the storage calls made so
\* far in this key event, and the Result of the latest call
Ctx(a, d, n, t) ==
    [app |-> a, db |-> d, next_id |-> n, tmp |-> t, calls |-> <<>>, edits |-> <<>>,
     ok |-> TRUE, err |-> NoArg, rows |-> <<>>, fatal |-> FALSE, term |-> Tui]

Failing(c, f) == Len(c.calls) + 1 = f

Called(c, op, ok, e) ==
    [c EXCEPT !.calls = Append(@, <<op, ok>>), !.ok = ok, !.err = e]

\* Database::get_all_notes
get_all_notes(c, f) ==
    IF Failing(c, f) THEN Called(c, "get_all_notes", FALSE, ConnErr)
    ELSE [Called(c, "get_all_notes", TRUE, NoArg) EXCEPT !.rows = RowsById(c.db)]

\* Database::create_note: INSERT (title, '', '{}'); title is UNIQUE
create_note(c, f, title) ==
    IF Failing(c, f) THEN Called(c, "create_note", FALSE, ConnErr)
    ELSE IF \E n \in c.db : n.title = title THEN Called(c, "create_note", FALSE, DupErr)
    ELSE [Called(c, "create_note", TRUE, NoArg) EXCEPT
            !.db = @ \cup {[id |-> c.next_id, title |-> title, content |-> "",
                            tags |-> <<>>, archived |-> FALSE]},
            !.next_id = @ + 1]

\* faulty variant: the UPDATE has no WHERE clause
update_note_content_AllRows(c, f, id, content) ==
    IF Failing(c, f) THEN Called(c, "update_note_content", FALSE, ConnErr)
    ELSE [Called(c, "update_note_content", TRUE, NoArg) EXCEPT
            !.db = {[n EXCEPT !.content = content] : n \in @}]

\* Database::update_note_content: UPDATE ... SET content WHERE id
update_note_content(c, f, id, content) ==
    IF Failing(c, f) THEN Called(c, "update_note_content", FALSE, ConnErr)
    ELSE [Called(c, "update_note_content", TRUE, NoArg) EXCEPT
            !.db = {IF n.id = id THEN [n EXCEPT !.content = content] ELSE n : n \in @}]

\* Database::update_note_tags: UPDATE ... SET tags WHERE id
update_note_tags(c, f, id, tags) ==
    IF Failing(c, f) THEN Called(c, "update_note_tags", FALSE, ConnErr)
    ELSE [Called(c, "update_note_tags", TRUE, NoArg) EXCEPT
            !.db = {IF n.id = id THEN [n EXCEPT !.tags = tags] ELSE n : n \in @}]

\* Database::rename_note: UPDATE ... SET title WHERE id; title is UNIQUE
rename_note(c, f, id, new_title) ==
    IF Failing(c, f) THEN Called(c, "rename_note", FALSE, ConnErr)
    ELSE IF (\E n \in c.db : n.id = id) /\ (\E n \in c.db : n.id # id /\ n.title = new_title)
    THEN Called(c, "rename_note", FALSE, DupErr)
    ELSE [Called(c, "rename_note", TRUE, NoArg) EXCEPT
            !.db = {IF n.id = id THEN [n EXCEPT !.title = new_title] ELSE n : n \in @}]

\* Database::delete_note: DELETE ... WHERE id
delete_note(c, f, id) ==
    IF Failing(c, f) THEN Called(c, "delete_note", FALSE, ConnErr)
    ELSE [Called(c, "delete_note", TRUE, NoArg) EXCEPT !.db = {n \in @ : n.id # id}]

\* Database::update_archive_status: UPDATE ... SET archived WHERE id
update_archive_status(c, f, id, archived) ==
    IF Failing(c, f) THEN Called(c, "update_archive_status", FALSE, ConnErr)
    ELSE [Called(c, "update_archive_status", TRUE, NoArg) EXCEPT
            !.db = {IF n.id = id THEN [n EXCEPT !.archived = archived] ELSE n : n \in @}]

(***************************************************************************)
(* AppState (app/state.rs).  The snapshot of state.rs under src/ predates  *)
(* the search query and the archive view that events.rs and ui.rs use;     *)
(* those two narrowings are modelled from the specification.               *)
(***************************************************************************)
\* AppState::new
NewAppState ==
    [all_notes |-> <<>>, notes |-> <<>>, selected |-> NoSel,
     status_message |-> Msg("Welcome! Press '?' for help.", NoArg),
     script_content_preview |-> "",
     input_mode |-> "Normal", filename_input |-> <<>>,
     active_filter |-> FilterAll, available_filters |-> <<>>,
     filter_selected |-> NoSel,
     search_query |-> <<>>, view_mode |-> "Active"]

\* AppState::set_status
set_status(a, message) == [a EXCEPT !.status_message = message]

\* AppState::get_selected_note: Option<&Note>, as a sequence of length 0 or 1
get_selected_note(a) ==
    IF a.selected # NoSel /\ a.selected < Len(a.notes)
    THEN <<a.notes[a.selected + 1]>> ELSE <<>>

\* AppState::update_preview
update_preview(a) ==
    LET sel == get_selected_note(a)
    IN  [a EXCEPT !.script_content_preview =
            IF sel # <<>> THEN sel[1].content ELSE "No notes found."]

\* faulty variant: the Untagged arm lets every note through
MatchesFilter_UntaggedAll(n, filter) ==
    CASE filter.kind = "All" -> TRUE
      [] filter.kind = "Untagged" -> TRUE
      [] filter.kind = "Specific" -> HasTag(n.tags, filter.tag)

\* the match of apply_current_filter's closure on the active TagFilter
MatchesFilter(n, filter) ==
    CASE filter.kind = "All" -> TRUE
      [] filter.kind = "Untagged" -> n.tags = <<>>
      [] filter.kind = "Specific" -> HasTag(n.tags, filter.tag)

\* the free-text search on the title: plain substring containment
MatchesSearch(n, query) == query = <<>> \/ Contains(n.title, query)

\* the archive view: active notes in the Active view, archived ones in the Archived view
MatchesView(n, view) == n.archived = (view = "Archived")

\* Iterator::filter(..).cloned().collect()
RECURSIVE FilterNotes(_, _, _, _)
FilterNotes(ns, filter, query, view) ==
    IF ns = <<>> THEN <<>>
    ELSE LET n == Head(ns)
             rest == FilterNotes(Tail(ns), filter, query, view)
         IN  IF MatchesFilter(n, filter) /\ MatchesSearch(n, query) /\ MatchesView(n, view)
             THEN <<n>> \o rest ELSE rest

\* insert n into a title-sorted sequence after the elements not greater than it
RECURSIVE InsertByTitle(_, _)
InsertByTitle(sorted, n) ==
    IF sorted = <<>> THEN <<n>>
    ELSE IF StrLess(n.title, Head(sorted).title) THEN <<n>> \o sorted
    ELSE <<Head(sorted)>> \o InsertByTitle(Tail(sorted), n)

\* faulty variant: the sort is left out
SortByTitle_Unsorted(ns) == ns

\* notes.sort_by(|a, b| a.title.cmp(&b.title)): a stable sort by title
RECURSIVE SortByTitle(_)
SortByTitle(ns) ==
    IF ns = <<>> THEN <<>>
    ELSE InsertByTitle(SortByTitle(SubSeq(ns, 1, Len(ns) - 1)), ns[Len(ns)])

\* AppState::apply_current_filter
apply_current_filter(a) ==
    [a EXCEPT !.notes =
        SortByTitle(FilterNotes(a.all_notes, a.active_filter, a.search_query, a.view_mode))]

\* faulty variant: an invalid selection is reset to index 0 even when the list is empty
ValidateSelection_NoNone(a) ==
    IF a.selected # NoSel /\ a.selected < Len(a.notes) THEN a
    ELSE [a EXCEPT !.selected = 0]

\* faulty variant: every refresh puts the selection on the first displayed note
ValidateSelection_AlwaysFirst(a) ==
    IF a.notes # <<>> THEN [a EXCEPT !.selected = 0]
    ELSE [a EXCEPT !.selected = NoSel]

\* the "Validate selection" block of refresh_notes
ValidateSelection(a) ==
    LET valid_selection_exists == a.selected # NoSel /\ a.selected < Len(a.notes)
    IN  IF valid_selection_exists THEN a
        ELSE IF a.notes # <<>> THEN [a EXCEPT !.selected = 0]
        ELSE [a EXCEPT !.selected = NoSel]

\* faulty variant: a failed list-all empties the view before reporting the error
refresh_notes_ClearOnError(c, f) ==
    LET r == get_all_notes(c, f)
    IN  IF r.ok
        THEN [r EXCEPT !.app = update_preview(ValidateSelection(
                                  apply_current_filter([r.app EXCEPT !.all_notes = r.rows])))]
        ELSE [r EXCEPT !.app = set_status(
                                  update_preview(ValidateSelection(
                                      apply_current_filter([r.app EXCEPT !.all_notes = <<>>]))),
                                  Msg("DB Error: {}", r.err))]

\* AppState::refresh_notes, on a dispatch context (always returns Ok(()))
refresh_notes(c, f) ==
    LET r == get_all_notes(c, f)
    IN  IF r.ok
        THEN [r EXCEPT !.app = update_preview(ValidateSelection(
                                  apply_current_filter([r.app EXCEPT !.all_notes = r.rows])))]
        ELSE [r EXCEPT !.app = set_status(r.app, Msg("DB Error: {}", r.err))]

\* faulty variant: empty tags are collected too
UniqueTags_KeepEmpty(ns) ==
    UNION {{ns[i].tags[j] : j \in 1..Len(ns[i].tags)} : i \in 1..Len(ns)}

\* the distinct non-empty tags of all notes (the HashSet of open_tag_selector)
UniqueTags(ns) ==
    UNION {{ns[i].tags[j] : j \in 1..Len(ns[i].tags)} : i \in 1..Len(ns)} \ {<<>>}

\* sorted_tags.sort(): ascending by String order
RECURSIVE SortedTags(_)
SortedTags(tags) ==
    IF tags = {} THEN <<>>
    ELSE LET m == CHOOSE x \in tags : \A y \in tags : x = y \/ StrLess(x, y)
         IN  <<m>> \o SortedTags(tags \ {m})

\* Vec<String> -> Vec<TagFilter::Specific>
RECURSIVE SpecificFilters(_)
SpecificFilters(tags) ==
    IF tags = <<>> THEN <<>> ELSE <<Specific(Head(tags))>> \o SpecificFilters(Tail(tags))

\* AppState::open_tag_selector
open_tag_selector(a) ==
    set_status(
        [a EXCEPT !.available_filters =
                      <<FilterAll, FilterUntagged>>
                          \o SpecificFilters(SortedTags(UniqueTags(a.all_notes))),
                  !.input_mode = "SelectingTagFilter",
                  !.filter_selected = 0],
        Msg("Select tag to filter. [Enter] confirm, [Esc] cancel.", NoArg))

\* faulty variant: moving the cursor also makes the option under it the active filter
next_filter_Applies(a) ==
    IF a.available_filters = <<>> THEN a
    ELSE LET i == IF a.filter_selected = NoSel THEN 0
                  ELSE IF a.filter_selected >= Len(a.available_filters) - 1 THEN 0
                  ELSE a.filter_selected + 1
         IN  apply_current_filter([a EXCEPT !.filter_selected = i,
                                            !.active_filter = a.available_filters[i + 1]])

\* faulty variant: the cursor moves past the last option instead of wrapping
next_filter_Overrun(a) ==
    IF a.available_filters = <<>> THEN a
    ELSE [a EXCEPT !.filter_selected =
            IF a.filter_selected = NoSel THEN 0 ELSE a.filter_selected + 1]

\* AppState::next_filter
next_filter(a) ==
    IF a.available_filters = <<>> THEN a
    ELSE [a EXCEPT !.filter_selected =
            IF a.filter_selected = NoSel THEN 0
            ELSE IF a.filter_selected >= Len(a.available_filters) - 1 THEN 0
            ELSE a.filter_selected + 1]

\* AppState::previous_filter
previous_filter(a) ==
    IF a.available_filters = <<>> THEN a
    ELSE [a EXCEPT !.filter_selected =
            IF a.filter_selected = NoSel THEN 0
            ELSE IF a.filter_selected = 0 THEN Len(a.available_filters) - 1
            ELSE a.filter_selected - 1]

\* faulty variant: next stops at the last index instead of wrapping
next_NoWrap(a) ==
    IF a.notes = <<>> THEN a
    ELSE update_preview([a EXCEPT !.selected =
            IF a.selected = NoSel THEN 0
            ELSE IF a.selected >= Len(a.notes) - 1 THEN Len(a.notes) - 1
            ELSE a.selected + 1])

\* AppState::next
next(a) ==
    IF a.notes = <<>> THEN a
    ELSE update_preview([a EXCEPT !.selected =
            IF a.selected = NoSel THEN 0
            ELSE IF a.selected >= Len(a.notes) - 1 THEN 0
            ELSE a.selected + 1])

\* AppState::previous
previous(a) ==
    IF a.notes = <<>> THEN a
    ELSE update_preview([a EXCEPT !.selected =
            IF a.selected = NoSel THEN 0
            ELSE IF a.selected = 0 THEN Len(a.notes) - 1
            ELSE a.selected - 1])

\* AppState::toggle_view_mode
toggle_view_mode(a) ==
    [a EXCEPT !.view_mode = IF @ = "Active" THEN "Archived" ELSE "Active"]

\* notes.iter().position(|n| n.title == title): the first index, or NoSel for None
Position(ns, title) ==
    IF \E i \in 1..Len(ns) : ns[i].title = title
    THEN (CHOOSE i \in 1..Len(ns) :
              ns[i].title = title /\ \A j \in 1..(i - 1) : ns[j].title # title) - 1
    ELSE NoSel

(***************************************************************************)
(* The external edit flow (app/events.rs, app/editor.rs).                  *)
(***************************************************************************)
\* what can happen in one edit flow: fs::write fails; open_editor returns Err
\* (its at-th terminal call failed); the editor cannot be launched; it exits
\* non-zero; fs::read_to_string fails; or it exits zero leaving some content
EditInputs ==
    {[out |-> o, content |-> "", at |-> 0] :
        o \in {"write_fail", "launch_fail", "nonzero", "read_fail"}}
    \cup {[out |-> "term_fail", content |-> "", at |-> k] : k \in 1..6}
    \cup {[out |-> "ok", content |-> x, at |-> 0] : x \in Contents}

\* faulty variant: a failed launch is propagated with `?` before the terminal
\* is restored
open_editor_LaunchPropagates(term, e) ==
    LET t1 == [term EXCEPT !.raw = FALSE]
        t2 == [t1 EXCEPT !.mouse = FALSE]
        t4 == [t2 EXCEPT !.raw = TRUE]
        t5 == [t4 EXCEPT !.alt = TRUE, !.mouse = TRUE]
    IN  CASE e.out = "term_fail" /\ e.at = 1 -> [term |-> term, res |-> "Err"]
          [] e.out = "term_fail" /\ e.at = 2 -> [term |-> t1, res |-> "Err"]
          [] e.out = "term_fail" /\ e.at \in {3, 4} -> [term |-> t2, res |-> "Err"]
          [] e.out = "term_fail" /\ e.at = 5 -> [term |-> t4, res |-> "Err"]
          [] e.out = "term_fail" /\ e.at = 6 -> [term |-> t5, res |-> "Err"]
          [] e.out = "launch_fail" -> [term |-> t2, res |-> "Err"]
          [] e.out = "nonzero" -> [term |-> t5, res |-> "Ok(false)"]
          [] OTHER -> [term |-> t5, res |-> "Ok(true)"]

\* open_editor: disable_raw_mode (1), DisableMouseCapture (2), show_cursor (3),
\* the editor process, enable_raw_mode (4), EnterAlternateScreen and
\* EnableMouseCapture (5), clear (6); a terminal call that fails returns Err
\* at once and changes no mode
open_editor(term, e) ==
    LET t1 == [term EXCEPT !.raw = FALSE]
        t2 == [t1 EXCEPT !.mouse = FALSE]
        t4 == [t2 EXCEPT !.raw = TRUE]
        t5 == [t4 EXCEPT !.alt = TRUE, !.mouse = TRUE]
    IN  CASE e.out = "term_fail" /\ e.at = 1 -> [term |-> term, res |-> "Err"]
          [] e.out = "term_fail" /\ e.at = 2 -> [term |-> t1, res |-> "Err"]
          [] e.out = "term_fail" /\ e.at \in {3, 4} -> [term |-> t2, res |-> "Err"]
          [] e.out = "term_fail" /\ e.at = 5 -> [term |-> t4, res |-> "Err"]
          [] e.out = "term_fail" /\ e.at = 6 -> [term |-> t5, res |-> "Err"]
          [] e.out \in {"launch_fail", "nonzero"} -> [term |-> t5, res |-> "Ok(false)"]
          [] OTHER -> [term |-> t5, res |-> "Ok(true)"]

Fatal(c) == [c EXCEPT !.fatal = TRUE]

\* faulty variant: the artifact is read back and stored whatever the editor's exit status
edit_note_in_external_editor_SaveAlways(c, f, e) ==
    LET selection == get_selected_note(c.app)
    IN  IF selection = <<>> THEN c
        ELSE
        LET id == selection[1].id
            content == selection[1].content
            c0 == [c EXCEPT !.edits = Append(@, [id |-> id, wrote |-> content, out |-> e.out,
                                                    read |-> e.content])]
            written == [c0 EXCEPT !.tmp = @ \cup {id}]
            removed(x) == [x EXCEPT !.tmp = @ \ {id}]
            oe == open_editor(c.term, e)
            opened == [written EXCEPT !.term = oe.term]
        IN  CASE e.out = "write_fail" -> Fatal(c0)
              [] oe.res = "Err" -> Fatal(opened)
              [] e.out = "read_fail" -> Fatal(opened)
              [] OTHER ->
                    LET u == update_note_content(opened, f, id, e.content)
                        st == IF u.ok THEN Msg("Note saved.", NoArg)
                              ELSE Msg("Error saving note: {}", u.err)
                    IN  refresh_notes(removed([u EXCEPT !.app = set_status(@, st)]), f)

\* edit_note_in_external_editor
edit_note_in_external_editor(c, f, e) ==
    LET selection == get_selected_note(c.app)
    IN  IF selection = <<>> THEN c
        ELSE
        LET id == selection[1].id
            content == selection[1].content
            c0 == [c EXCEPT !.edits = Append(@, [id |-> id, wrote |-> content, out |-> e.out,
                                                    read |-> e.content])]
            written == [c0 EXCEPT !.tmp = @ \cup {id}]
            removed(x) == [x EXCEPT !.tmp = @ \ {id}]
            oe == open_editor(c.term, e)
            opened == [written EXCEPT !.term = oe.term]
        IN  CASE e.out = "write_fail" -> Fatal(c0)
              [] oe.res = "Err" -> Fatal(opened)
              [] e.out = "read_fail" -> Fatal(opened)
              [] oe.res = "Ok(false)" ->
                    refresh_notes(removed(
                        [opened EXCEPT !.app =
                            set_status(@, Msg("Editor exited with error.", NoArg))]), f)
              [] OTHER ->
                    LET u == update_note_content(opened, f, id, e.content)
                        st == IF u.ok THEN Msg("Note saved.", NoArg)
                              ELSE Msg("Error saving note: {}", u.err)
                    IN  refresh_notes(removed([u EXCEPT !.app = set_status(@, st)]), f)

(***************************************************************************)
(* handle_key_event (app/events.rs): one action per match arm.             *)
(***************************************************************************)
Begin == [Ctx(app, db, next_id, tmp) EXCEPT !.term = terminal]

\* the state after the handler ran to c and returned res (Err when fatal)
Return(c, key, res) ==
    /\ app' = c.app
    /\ db' = c.db
    /\ next_id' = c.next_id
    /\ tmp' = c.tmp
    /\ result' = IF c.fatal THEN "Err" ELSE res
    /\ last' = [mode |-> app.input_mode, key |-> key, calls |-> c.calls, edits |-> c.edits]
    /\ keys' = keys + 1
    /\ terminal' = c.term
    /\ env' = env

WithApp(a) == [Begin EXCEPT !.app = a]

\* the control loop is running (the last event returned Ok(true)) and reads a key
Running == result = "Ok(true)" /\ keys < MaxKeys

InMode(m) == Running /\ app.input_mode = m

\* Normal, 'q'
NormalQuit ==
    /\ InMode("Normal")
    /\ Return(Begin, "q", "Ok(false)")

\* Normal, 'j' without CONTROL
NormalNext ==
    /\ InMode("Normal")
    /\ Return(WithApp(next(app)), "j", "Ok(true)")

\* Normal, 'k' without CONTROL
NormalPrevious ==
    /\ InMode("Normal")
    /\ Return(WithApp(previous(app)), "k", "Ok(true)")

\* Normal, Enter | 'e'
NormalEdit ==
    /\ InMode("Normal")
    /\ \E key \in {"Enter", "e"}, f \in FailAt, e \in EditInputs :
          Return(edit_note_in_external_editor(Begin, f, e), key, "Ok(true)")

\* faulty variant: 'a' enters the mode with the buffer as an earlier mode left it
NormalAdd_KeepBuffer ==
    /\ InMode("Normal")
    /\ Return(WithApp(set_status(
            [app EXCEPT !.input_mode = "EditingFilename"],
            Msg("Enter new note title. Press [Enter] to confirm, [Esc] to cancel.", NoArg))),
          "a", "Ok(true)")

\* Normal, 'a'
NormalAdd ==
    /\ InMode("Normal")
    /\ Return(WithApp(set_status(
            [app EXCEPT !.input_mode = "EditingFilename", !.filename_input = <<>>],
            Msg("Enter new note title. Press [Enter] to confirm, [Esc] to cancel.", NoArg))),
          "a", "Ok(true)")

\* faulty variant: 'd' asks for confirmation whether or not a note is selected
NormalDelete_Unguarded ==
    /\ InMode("Normal")
    /\ LET selection == get_selected_note(app)
       IN  Return(WithApp(
               set_status([app EXCEPT !.input_mode = "ConfirmingDelete"],
                          Msg("Delete '{}'? (y/n)",
                              IF selection # <<>> THEN selection[1].title ELSE <<>>))),
             "d", "Ok(true)")

\* Normal, 'd'
NormalDelete ==
    /\ InMode("Normal")
    /\ LET selection == get_selected_note(app)
       IN  Return(WithApp(
               IF selection # <<>>
               THEN set_status([app EXCEPT !.input_mode = "ConfirmingDelete"],
                               Msg("Delete '{}'? (y/n)", selection[1].title))
               ELSE set_status(app, Msg("No note selected to delete.", NoArg))),
             "d", "Ok(true)")

\* Normal, 'r'
NormalRename ==
    /\ InMode("Normal")
    /\ LET selection == get_selected_note(app)
       IN  Return(WithApp(
               IF selection # <<>>
               THEN set_status([app EXCEPT !.input_mode = "RenamingScript",
                                           !.filename_input = selection[1].title],
                               Msg("Enter new title. Press [Enter] to confirm, [Esc] to cancel.",
                                   NoArg))
               ELSE set_status(app, Msg("No note selected to rename.", NoArg))),
             "r", "Ok(true)")

\* the body of Normal, 'x'
ToggleArchive(c, f) ==
    LET selection == get_selected_note(c.app)
    IN  IF selection = <<>> THEN c
        ELSE LET note == selection[1]
                 new_status == ~note.archived
                 u == update_archive_status(c, f, note.id, new_status)
             IN  IF u.ok
                 THEN refresh_notes(
                        [u EXCEPT !.app = set_status(@,
                            Msg(IF new_status THEN "Note '{}' Archived."
                                ELSE "Note '{}' Unarchived.", note.title))], f)
                 ELSE [u EXCEPT !.app =
                         set_status(@, Msg("Error updating archive status: {}", u.err))]

\* Normal, 'x'
NormalArchive ==
    /\ InMode("Normal")
    /\ \E f \in FailAt : Return(ToggleArchive(Begin, f), "x", "Ok(true)")

\* the body of Normal, 'v'
ToggleView(a) ==
    LET a1 == apply_current_filter(toggle_view_mode(a))
        a2 == IF a1.notes # <<>> THEN [a1 EXCEPT !.selected = 0] ELSE a1
    IN  set_status(update_preview(a2),
                   Msg("Switched to {}",
                       IF a2.view_mode = "Active" THEN <<"Active Notes">>
                       ELSE <<"Archived Notes">>))

\* Normal, 'v'
NormalView ==
    /\ InMode("Normal")
    /\ Return(WithApp(ToggleView(app)), "v", "Ok(true)")

\* faulty variant: 't' opens the tag editor whether or not a note is selected
NormalTags_Unguarded ==
    /\ InMode("Normal")
    /\ LET selection == get_selected_note(app)
       IN  Return(WithApp(
               set_status([app EXCEPT !.input_mode = "EditingTags",
                                      !.filename_input =
                                          IF selection # <<>> THEN Join(selection[1].tags)
                                          ELSE <<>>],
                          Msg("Edit tags (comma separated). [Enter] save, [Esc] cancel.",
                              NoArg))),
             "t", "Ok(true)")

\* Normal, 't'
NormalTags ==
    /\ InMode("Normal")
    /\ LET selection == get_selected_note(app)
       IN  Return(WithApp(
               IF selection # <<>>
               THEN set_status([app EXCEPT !.input_mode = "EditingTags",
                                           !.filename_input = Join(selection[1].tags)],
                               Msg("Edit tags (comma separated). [Enter] save, [Esc] cancel.",
                                   NoArg))
               ELSE set_status(app, Msg("No note selected.", NoArg))),
             "t", "Ok(true)")

\* Normal, 'T'
NormalTagSelector ==
    /\ InMode("Normal")
    /\ Return(WithApp(open_tag_selector(app)), "T", "Ok(true)")

\* Normal, '/'
NormalSearch ==
    /\ InMode("Normal")
    /\ Return(WithApp(set_status([app EXCEPT !.input_mode = "Searching"],
            Msg("Search mode: Type to filter, [Enter] to keep filter, [Esc] to clear.", NoArg))),
          "/", "Ok(true)")

\* Normal, '?'
NormalHelp ==
    /\ InMode("Normal")
    /\ Return(WithApp([app EXCEPT !.input_mode = "ShowHelp"]), "?", "Ok(true)")

\* Searching, Enter
SearchingEnter ==
    /\ InMode("Searching")
    /\ Return(WithApp(set_status([app EXCEPT !.input_mode = "Normal"],
                                 Msg("Search applied: '{}'", app.search_query))),
              "Enter", "Ok(true)")

\* the body of Searching, Esc
ClearSearch(a) ==
    LET a1 == set_status(
                  [apply_current_filter([a EXCEPT !.search_query = <<>>])
                      EXCEPT !.input_mode = "Normal"],
                  Msg("Search cleared.", NoArg))
    IN  IF a1.notes # <<>> THEN [a1 EXCEPT !.selected = 0] ELSE a1

\* Searching, Esc
SearchingEsc ==
    /\ InMode("Searching")
    /\ Return(WithApp(ClearSearch(app)), "Esc", "Ok(true)")

\* faulty variant: the query shrinks but the displayed list is not re-derived
SearchPop_NoApply(a) == [a EXCEPT !.search_query = Pop(@)]

\* the body of Searching, Backspace
SearchPop(a) == apply_current_filter([a EXCEPT !.search_query = Pop(@)])

\* Searching, Backspace
SearchingBackspace ==
    /\ InMode("Searching")
    /\ Return(WithApp(SearchPop(app)), "Backspace", "Ok(true)")

\* faulty variant: the query grows but the displayed list is not re-derived
SearchPush_NoApply(a, ch) == [a EXCEPT !.search_query = Append(@, ch)]

\* the body of Searching, Char(c)
SearchPush(a, ch) == apply_current_filter([a EXCEPT !.search_query = Append(@, ch)])

\* Searching, Char(c)
SearchingChar ==
    /\ InMode("Searching")
    /\ Len(app.search_query) < MaxQuery
    /\ \E ch \in env.chars : Return(WithApp(SearchPush(app, ch)), ch, "Ok(true)")

\* faulty variant: the cancel arm opens the help screen instead of returning to Normal
CancelMode_ToHelp(a, text) == set_status([a EXCEPT !.input_mode = "ShowHelp"], Msg(text, NoArg))

\* faulty variant: the cancel arm sets the message but stays in the mode
CancelMode_KeepMode(a, text) == set_status(a, Msg(text, NoArg))

\* Esc in a text mode, with the mode's message
CancelMode(a, text) == set_status([a EXCEPT !.input_mode = "Normal"], Msg(text, NoArg))

\* Backspace in EditingFilename, EditingTags, RenamingScript
BufferPop(a) == [a EXCEPT !.filename_input = Pop(@)]

\* faulty variant: the character is put in front of the buffer
BufferPush_Front(a, ch) == [a EXCEPT !.filename_input = <<ch>> \o @]

\* Char(c) in EditingFilename, EditingTags, RenamingScript
BufferPush(a, ch) == [a EXCEPT !.filename_input = Append(@, ch)]

\* faulty variant: a rejected create is propagated with `?` instead of being shown
CreateNote_Propagate(c, f, e) ==
    LET title == Trim(c.app.filename_input)
    IN  IF title = <<>>
        THEN [c EXCEPT !.app = CancelMode(@, "New note cancelled.")]
        ELSE
        LET cr == create_note(c, f, title)
            done(x) == [x EXCEPT !.app.input_mode = "Normal"]
        IN  IF ~cr.ok
            THEN Fatal(cr)
            ELSE
            LET r == refresh_notes(
                        [cr EXCEPT !.app = set_status(@, Msg("Note '{}' created.", title))], f)
                idx == Position(r.app.notes, title)
            IN  IF idx = NoSel THEN done(r)
                ELSE LET ed == edit_note_in_external_editor(
                                  [r EXCEPT !.app = update_preview([@ EXCEPT !.selected = idx])],
                                  f, e)
                     IN  IF ed.fatal THEN ed ELSE done(ed)

\* the body of EditingFilename, Enter
CreateNote(c, f, e) ==
    LET title == Trim(c.app.filename_input)
    IN  IF title = <<>>
        THEN [c EXCEPT !.app = CancelMode(@, "New note cancelled.")]
        ELSE
        LET cr == create_note(c, f, title)
            done(x) == [x EXCEPT !.app.input_mode = "Normal"]
        IN  IF ~cr.ok
            THEN done([cr EXCEPT !.app = set_status(@, Msg("Error creating note: {}", cr.err))])
            ELSE
            LET r == refresh_notes(
                        [cr EXCEPT !.app = set_status(@, Msg("Note '{}' created.", title))], f)
                idx == Position(r.app.notes, title)
            IN  IF idx = NoSel THEN done(r)
                ELSE LET ed == edit_note_in_external_editor(
                                  [r EXCEPT !.app = update_preview([@ EXCEPT !.selected = idx])],
                                  f, e)
                     IN  IF ed.fatal THEN ed ELSE done(ed)

\* EditingFilename, Enter
EditingFilenameEnter ==
    /\ InMode("EditingFilename")
    /\ Trim(app.filename_input) # <<>> => next_id <= MaxId
    /\ \E f \in FailAt, e \in EditInputs :
          Return(CreateNote(Begin, f, e), "Enter", "Ok(true)")

\* EditingFilename, Esc
EditingFilenameEsc ==
    /\ InMode("EditingFilename")
    /\ Return(WithApp(CancelMode(app, "New note cancelled.")), "Esc", "Ok(true)")

\* EditingFilename, Backspace
EditingFilenameBackspace ==
    /\ InMode("EditingFilename")
    /\ Return(WithApp(BufferPop(app)), "Backspace", "Ok(true)")

\* EditingFilename, Char(c)
EditingFilenameChar ==
    /\ InMode("EditingFilename")
    /\ Len(app.filename_input) < MaxInput
    /\ \E ch \in env.chars : Return(WithApp(BufferPush(app, ch)), ch, "Ok(true)")

\* faulty variant: the tags are stored and the view is not refreshed
SaveTags_NoRefresh(c, f) ==
    LET tags == ParseTags(c.app.filename_input)
        selection == get_selected_note(c.app)
        done(x) == [x EXCEPT !.app.input_mode = "Normal"]
    IN  IF selection = <<>> THEN done(c)
        ELSE LET u == update_note_tags(c, f, selection[1].id, tags)
             IN  IF u.ok
                 THEN done([u EXCEPT !.app = set_status(@, Msg("Tags updated.", NoArg))])
                 ELSE done([u EXCEPT !.app =
                              set_status(@, Msg("Error updating tags: {}", u.err))])

\* the body of EditingTags, Enter
SaveTags(c, f) ==
    LET tags == ParseTags(c.app.filename_input)
        selection == get_selected_note(c.app)
        done(x) == [x EXCEPT !.app.input_mode = "Normal"]
    IN  IF selection = <<>> THEN done(c)
        ELSE LET u == update_note_tags(c, f, selection[1].id, tags)
             IN  IF u.ok
                 THEN done(refresh_notes(
                        [u EXCEPT !.app = set_status(@, Msg("Tags updated.", NoArg))], f))
                 ELSE done([u EXCEPT !.app =
                              set_status(@, Msg("Error updating tags: {}", u.err))])

\* EditingTags, Enter
EditingTagsEnter ==
    /\ InMode("EditingTags")
    /\ \E f \in FailAt : Return(SaveTags(Begin, f), "Enter", "Ok(true)")

\* EditingTags, Esc
EditingTagsEsc ==
    /\ InMode("EditingTags")
    /\ Return(WithApp(CancelMode(app, "Tag editing cancelled.")), "Esc", "Ok(true)")

\* EditingTags, Backspace
EditingTagsBackspace ==
    /\ InMode("EditingTags")
    /\ Return(WithApp(BufferPop(app)), "Backspace", "Ok(true)")

\* EditingTags, Char(c)
EditingTagsChar ==
    /\ InMode("EditingTags")
    /\ Len(app.filename_input) < MaxInput
    /\ \E ch \in env.chars : Return(WithApp(BufferPush(app, ch)), ch, "Ok(true)")

\* faulty variant: 'y' deletes the first displayed note instead of the selected one
DeleteNote_First(c, f) ==
    LET done(x) == [x EXCEPT !.app.input_mode = "Normal"]
    IN  IF c.app.notes = <<>> THEN done(c)
        ELSE LET d == delete_note(c, f, c.app.notes[1].id)
             IN  IF d.ok
                 THEN done(refresh_notes(
                        [d EXCEPT !.app =
                            set_status(@, Msg("Note '{}' deleted.", c.app.notes[1].title))], f))
                 ELSE done([d EXCEPT !.app =
                              set_status(@, Msg("Error deleting note: {}", d.err))])

\* the body of ConfirmingDelete, 'y'
DeleteNote(c, f) ==
    LET selection == get_selected_note(c.app)
        done(x) == [x EXCEPT !.app.input_mode = "Normal"]
    IN  IF selection = <<>> THEN done(c)
        ELSE LET d == delete_note(c, f, selection[1].id)
             IN  IF d.ok
                 THEN done(refresh_notes(
                        [d EXCEPT !.app =
                            set_status(@, Msg("Note '{}' deleted.", selection[1].title))], f))
                 ELSE done([d EXCEPT !.app =
                              set_status(@, Msg("Error deleting note: {}", d.err))])

\* ConfirmingDelete, 'y'
ConfirmingDeleteYes ==
    /\ InMode("ConfirmingDelete")
    /\ \E f \in FailAt : Return(DeleteNote(Begin, f), "y", "Ok(true)")

\* ConfirmingDelete, 'n' | Esc
ConfirmingDeleteNo ==
    /\ InMode("ConfirmingDelete")
    /\ \E key \in {"n", "Esc"} :
          Return(WithApp(CancelMode(app, "Deletion cancelled.")), key, "Ok(true)")

\* faulty variant: a rejected rename is followed by a refresh and reselection like an accepted one
RenameNote_RefreshOnError(c, f) ==
    LET new_title == Trim(c.app.filename_input)
        selection == get_selected_note(c.app)
        done(x) == [x EXCEPT !.app.input_mode = "Normal"]
    IN  IF new_title = <<>>
        THEN [c EXCEPT !.app = CancelMode(@, "Rename cancelled.")]
        ELSE IF selection = <<>> THEN done(c)
        ELSE LET rn == rename_note(c, f, selection[1].id, new_title)
                 r == refresh_notes(
                         [rn EXCEPT !.app = set_status(@,
                             IF rn.ok THEN Msg("Note renamed.", NoArg)
                             ELSE Msg("Error renaming note: {}", rn.err))], f)
                 idx == Position(r.app.notes, new_title)
             IN  done(IF idx = NoSel THEN r ELSE [r EXCEPT !.app.selected = idx])

\* faulty variant: after the refresh the selection is left where the refresh put it
RenameNote_NoReselect(c, f) ==
    LET new_title == Trim(c.app.filename_input)
        selection == get_selected_note(c.app)
        done(x) == [x EXCEPT !.app.input_mode = "Normal"]
    IN  IF new_title = <<>>
        THEN [c EXCEPT !.app = CancelMode(@, "Rename cancelled.")]
        ELSE IF selection = <<>> THEN done(c)
        ELSE LET rn == rename_note(c, f, selection[1].id, new_title)
             IN  IF ~rn.ok
                 THEN done([rn EXCEPT !.app =
                              set_status(@, Msg("Error renaming note: {}", rn.err))])
                 ELSE done(refresh_notes(
                              [rn EXCEPT !.app = set_status(@, Msg("Note renamed.", NoArg))], f))

\* the body of RenamingScript, Enter
RenameNote(c, f) ==
    LET new_title == Trim(c.app.filename_input)
        selection == get_selected_note(c.app)
        done(x) == [x EXCEPT !.app.input_mode = "Normal"]
    IN  IF new_title = <<>>
        THEN [c EXCEPT !.app = CancelMode(@, "Rename cancelled.")]
        ELSE IF selection = <<>> THEN done(c)
        ELSE LET rn == rename_note(c, f, selection[1].id, new_title)
             IN  IF ~rn.ok
                 THEN done([rn EXCEPT !.app =
                              set_status(@, Msg("Error renaming note: {}", rn.err))])
                 ELSE LET r == refresh_notes(
                                  [rn EXCEPT !.app = set_status(@, Msg("Note renamed.", NoArg))],
                                  f)
                          idx == Position(r.app.notes, new_title)
                      IN  done(IF idx = NoSel THEN r
                               ELSE [r EXCEPT !.app.selected = idx])

\* RenamingScript, Enter
RenamingScriptEnter ==
    /\ InMode("RenamingScript")
    /\ \E f \in FailAt : Return(RenameNote(Begin, f), "Enter", "Ok(true)")

\* RenamingScript, Esc
RenamingScriptEsc ==
    /\ InMode("RenamingScript")
    /\ Return(WithApp(CancelMode(app, "Rename cancelled.")), "Esc", "Ok(true)")

\* RenamingScript, Backspace
RenamingScriptBackspace ==
    /\ InMode("RenamingScript")
    /\ Return(WithApp(BufferPop(app)), "Backspace", "Ok(true)")

\* RenamingScript, Char(c)
RenamingScriptChar ==
    /\ InMode("RenamingScript")
    /\ Len(app.filename_input) < MaxInput
    /\ \E ch \in env.chars : Return(WithApp(BufferPush(app, ch)), ch, "Ok(true)")

\* SelectingTagFilter, 'j'
SelectingTagFilterNext ==
    /\ InMode("SelectingTagFilter")
    /\ Return(WithApp(next_filter(app)), "j", "Ok(true)")

\* SelectingTagFilter, 'k'
SelectingTagFilterPrevious ==
    /\ InMode("SelectingTagFilter")
    /\ Return(WithApp(previous_filter(app)), "k", "Ok(true)")

\* the Display of a TagFilter
FilterName(filter) ==
    CASE filter.kind = "All" -> <<"All Notes">>
      [] filter.kind = "Untagged" -> <<"Untagged">>
      [] filter.kind = "Specific" -> <<"#">> \o filter.tag

\* faulty variant: confirming a filter also drops the hidden notes from all_notes
ApplyFilter_NarrowsAll(a) ==
    LET idx == a.filter_selected
        chosen == IF idx # NoSel /\ idx < Len(a.available_filters)
                  THEN <<a.available_filters[idx + 1]>> ELSE <<>>
        a1 == IF chosen = <<>> THEN a
              ELSE LET a2 == apply_current_filter([a EXCEPT !.active_filter = chosen[1]])
                       a3 == IF a2.notes # <<>> THEN [a2 EXCEPT !.selected = 0]
                             ELSE [a2 EXCEPT !.selected = NoSel]
                   IN  set_status(update_preview([a3 EXCEPT !.all_notes = a3.notes]),
                                  Msg("Filter applied: {}", FilterName(chosen[1])))
    IN  [a1 EXCEPT !.input_mode = "Normal"]

\* faulty variant: the filter is applied and the note selection left where it was
ApplyFilter_KeepSelection(a) ==
    LET idx == a.filter_selected
        chosen == IF idx # NoSel /\ idx < Len(a.available_filters)
                  THEN <<a.available_filters[idx + 1]>> ELSE <<>>
        a1 == IF chosen = <<>> THEN a
              ELSE set_status(update_preview(
                                  apply_current_filter([a EXCEPT !.active_filter = chosen[1]])),
                              Msg("Filter applied: {}", FilterName(chosen[1])))
    IN  [a1 EXCEPT !.input_mode = "Normal"]

\* the body of SelectingTagFilter, Enter
ApplyFilter(a) ==
    LET idx == a.filter_selected
        chosen == IF idx # NoSel /\ idx < Len(a.available_filters)
                  THEN <<a.available_filters[idx + 1]>> ELSE <<>>
        a1 == IF chosen = <<>> THEN a
              ELSE LET a2 == apply_current_filter([a EXCEPT !.active_filter = chosen[1]])
                       a3 == IF a2.notes # <<>> THEN [a2 EXCEPT !.selected = 0]
                             ELSE [a2 EXCEPT !.selected = NoSel]
                   IN  set_status(update_preview(a3),
                                  Msg("Filter applied: {}", FilterName(chosen[1])))
    IN  [a1 EXCEPT !.input_mode = "Normal"]

\* SelectingTagFilter, Enter
SelectingTagFilterEnter ==
    /\ InMode("SelectingTagFilter")
    /\ Return(WithApp(ApplyFilter(app)), "Enter", "Ok(true)")

\* SelectingTagFilter, Esc | 'q'
SelectingTagFilterEsc ==
    /\ InMode("SelectingTagFilter")
    /\ \E key \in {"Esc", "q"} :
          Return(WithApp(CancelMode(app, "Filter cancelled.")), key, "Ok(true)")

\* faulty variant: 'q' quits from the help screen as it does from Normal
ShowHelpClose_Quits ==
    /\ InMode("ShowHelp")
    /\ \E key \in {"q", "Esc", "?"} :
          Return(WithApp([app EXCEPT !.input_mode = "Normal"]), key,
                 IF key = "q" THEN "Ok(false)" ELSE "Ok(true)")

\* ShowHelp, 'q' | Esc | '?'
ShowHelpClose ==
    /\ InMode("ShowHelp")
    /\ \E key \in {"q", "Esc", "?"} :
          Return(WithApp([app EXCEPT !.input_mode = "Normal"]), key, "Ok(true)")

\* the `_ => {}` arm of every mode, for a key no arm of any mode names
OtherKey ==
    /\ Running
    /\ Return(Begin, "Tab", "Ok(true)")

(***************************************************************************)
(* Specification.                                                          *)
(***************************************************************************)
Note(id, title, content, tags, archived) ==
    [id |-> id, title |-> title, content |-> content, tags |-> tags, archived |-> archived]

\* the storage contents the program may be started on
InitialStores ==
    { {},
      {Note(1, <<"b">>, "x", <<<<"a">>, <<"b">>>>, FALSE)},
      {Note(1, <<"b">>, "x", <<<<"a">>>>, FALSE), Note(2, <<"a">>, "", <<>>, FALSE)} }

\* main: Database::new, AppState::new, then the first refresh_notes
Start(stores, faults, chars) ==
    \E store \in stores :
        LET c == refresh_notes(Ctx(NewAppState, store, Cardinality(store) + 1, {}), 0)
        IN  /\ app = c.app
            /\ db = c.db
            /\ next_id = c.next_id
            /\ tmp = {}
            /\ result = "Ok(true)"
            /\ last = [mode |-> "Normal", key |-> "start", calls |-> c.calls, edits |-> <<>>]
            /\ keys = 0
            /\ terminal = Tui
            /\ env = [faults |-> faults, chars |-> chars]

\* the characters the modelled user types into the text buffers
TypedChars == {"a", ",", " "}

\* storage calls fail only on constraint violations
Init == Start(InitialStores, FALSE, TypedChars)

\* any storage call may also fail for another reason
InitFaulty == Start(InitialStores, TRUE, TypedChars)

Next ==
    \/ NormalQuit \/ NormalNext \/ NormalPrevious \/ NormalEdit \/ NormalAdd
    \/ NormalDelete \/ NormalRename \/ NormalArchive \/ NormalView \/ NormalTags
    \/ NormalTagSelector \/ NormalSearch \/ NormalHelp
    \/ SearchingEnter \/ SearchingEsc \/ SearchingBackspace \/ SearchingChar
    \/ EditingFilenameEnter \/ EditingFilenameEsc \/ EditingFilenameBackspace
    \/ EditingFilenameChar
    \/ EditingTagsEnter \/ EditingTagsEsc \/ EditingTagsBackspace \/ EditingTagsChar
    \/ ConfirmingDeleteYes \/ ConfirmingDeleteNo
    \/ RenamingScriptEnter \/ RenamingScriptEsc \/ RenamingScriptBackspace
    \/ RenamingScriptChar
    \/ SelectingTagFilterNext \/ SelectingTagFilterPrevious \/ SelectingTagFilterEnter
    \/ SelectingTagFilterEsc
    \/ ShowHelpClose \/ OtherKey

Spec == Init /\ [][Next]_vars

SpecFaulty == InitFaulty /\ [][Next]_vars

(***************************************************************************)
(* Properties.                                                             *)
(***************************************************************************)
\* the displayed list and the selection cursor
notes == app.notes
all_notes == app.all_notes
selected == app.selected

\* the elements of a sequence
Range(seq) == {seq[i] : i \in 1..Len(seq)}

\* the last key event was `key`, read in mode `m`
Pressed(m, key) == last.mode = m /\ last.key = key

\* the last key event made a successful refresh (its last list-all succeeded)
Refreshed ==
    \E i \in 1..Len(last.calls) :
        /\ last.calls[i] = <<"get_all_notes", TRUE>>
        /\ \A j \in (i + 1)..Len(last.calls) : last.calls[j][1] # "get_all_notes"

\* C1: in every reachable state the list selection is None or an index
\* strictly smaller than the length of the displayed note list
C1_SelectionInRange == selected = NoSel \/ selected < Len(notes)

\* C2: after the refresh of a create, rename or delete, the selection is None
\* iff the displayed list is empty, and otherwise a valid index into it
C2_SelectionAfterRefresh ==
    (/\ \/ Pressed("EditingFilename", "Enter")
        \/ Pressed("RenamingScript", "Enter")
        \/ Pressed("ConfirmingDelete", "y")
     /\ Refreshed)
    => /\ (selected = NoSel) <=> (notes = <<>>)
       /\ selected # NoSel => selected \in 0..(Len(notes) - 1)

\* C2 witness: a delete emptied the displayed list and the selection became None
C2_Witness_DeleteLast ==
    Pressed("ConfirmingDelete", "y") /\ Refreshed /\ notes = <<>> /\ selected = NoSel

\* a note passes the active tag filter, the search query and the archive view,
\* spelled out from the data model rather than through apply_current_filter
Passes(n) ==
    /\ \/ app.active_filter.kind = "All"
       \/ app.active_filter.kind = "Untagged" /\ Len(n.tags) = 0
       \/ app.active_filter.kind = "Specific"
            /\ app.active_filter.tag \in Range(n.tags)
    /\ \/ app.search_query = <<>>
       \/ \E i \in 1..Len(n.title) : \E j \in i..Len(n.title) :
              SubSeq(n.title, i, j) = app.search_query
    /\ (app.view_mode = "Archived") <=> n.archived

\* title order: s is not after t
TitleLeq(s, t) == s = t \/ StrLess(s, t)

\* C3: after every key event the displayed list is exactly the notes of
\* all_notes that pass the active filter, search query and view, each once,
\* in title order
C3_DisplayedIsDerived ==
    /\ Range(notes) = {n \in Range(all_notes) : Passes(n)}
    /\ \A i, j \in 1..Len(notes) : i # j => notes[i] # notes[j]
    /\ \A i, j \in 1..Len(notes) : i < j => TitleLeq(notes[i].title, notes[j].title)

\* C3 witness: a filter or query is active and hides some notes while showing others
C3_Witness_ProperSubset ==
    /\ notes # <<>>
    /\ Len(notes) < Len(all_notes)
    /\ last.key # "start"
    /\ (app.active_filter.kind # "All" \/ app.search_query # <<>>)

\* C5: the displayed list is non-decreasing by title in every reachable state
C5_SortedByTitle ==
    \A i \in 1..(Len(notes) - 1) : ~StrLess(notes[i + 1].title, notes[i].title)

\* C5 witness: two notes are displayed in an order that differs from storage order
C5_Witness_Reordered ==
    /\ last.key # "start"
    /\ Refreshed
    /\ Len(notes) >= 2
    /\ notes[1].id > notes[2].id
    /\ StrLess(notes[1].title, notes[2].title)

(***************************************************************************)
(* apply_current_filter as a function of its inputs: the collection, the   *)
(* tag filter, the query and the view are drawn from bounded sets.         *)
(***************************************************************************)
\* longest collection drawn
MaxList == 2

NotePool ==
    { Note(1, <<"b">>, "x", <<<<"a">>, <<"b">>>>, FALSE),
      Note(2, <<"a">>, "", <<>>, FALSE),
      Note(3, <<"a", "b">>, "", <<<<"b">>>>, TRUE),
      Note(4, <<"b", "a">>, "x", <<<<"a">>>>, FALSE) }

\* the sequences of distinct notes of the pool, up to k long
NoteLists(k) ==
    {l \in UNION {[1..m -> NotePool] : m \in 0..k} :
        \A i, j \in 1..Len(l) : i # j => l[i] # l[j]}

FilterInputs == {FilterAll, FilterUntagged, Specific(<<"a">>), Specific(<<"b">>), Specific(<<"c">>)}

QueryInputs == {<<>>, <<"a">>, <<"b">>}

InitFilter ==
    /\ \E l \in NoteLists(MaxList), fl \in FilterInputs, q \in QueryInputs,
          v \in {"Active", "Archived"} :
          app = [NewAppState EXCEPT !.all_notes = l, !.active_filter = fl,
                                    !.search_query = q, !.view_mode = v]
    /\ db = {}
    /\ next_id = 1
    /\ tmp = {}
    /\ result = "Ok(true)"
    /\ last = [mode |-> "Normal", key |-> "start", calls |-> <<>>, edits |-> <<>>]
    /\ keys = 0
    /\ terminal = Tui
    /\ env = [faults |-> FALSE, chars |-> {}]

\* one call of apply_current_filter
ApplyCurrentFilter ==
    /\ last.key = "start"
    /\ app' = apply_current_filter(app)
    /\ last' = [last EXCEPT !.key = "apply_current_filter"]
    /\ UNCHANGED <<db, next_id, tmp, result, keys, terminal, env>>

SpecFilter == InitFilter /\ [][ApplyCurrentFilter]_vars

Applied == last.key = "apply_current_filter"

InView(n) ==
    /\ app.search_query = <<>> \/ Contains(n.title, app.search_query)
    /\ n.archived <=> app.view_mode = "Archived"

Step(m, key) == keys' = keys + 1 /\ last'.mode = m /\ last'.key = key

\* C6: with a non-empty displayed list and a selected index in it, next
\* selects 0 from the last index and index+1 otherwise, previous selects the
\* last index from 0 and index-1 otherwise; with an empty list both change
\* nothing of the application state
C6_SelectionWraps ==
    [][/\ (Step("Normal", "j") /\ notes # <<>> /\ selected \in 0..(Len(notes) - 1))
            => /\ app'.selected = IF selected = Len(notes) - 1 THEN 0 ELSE selected + 1
               /\ app'.notes = notes
       /\ (Step("Normal", "k") /\ notes # <<>> /\ selected \in 0..(Len(notes) - 1))
            => /\ app'.selected = IF selected = 0 THEN Len(notes) - 1 ELSE selected - 1
               /\ app'.notes = notes
       /\ ((Step("Normal", "j") \/ Step("Normal", "k")) /\ notes = <<>>)
            => app' = app
      ]_vars

\* C6 witness: previous wrapped from index 0 to the last index of a list of two
C6_Witness_WrappedBack ==
    Pressed("Normal", "k") /\ Len(notes) >= 2 /\ selected = Len(notes) - 1

\* the titles stored
Titles(rows) == {n.title : n \in rows}

\* C7 as claimed (in the Active view with no search query): confirming
\* CreatingNote with a non-empty title that storage does not hold leaves a
\* note with that title and no tags in storage, created with empty content;
\* the selection is on that note; and the edit flow was entered for it
C7_CreateSelectsAndEdits ==
    [][(/\ Step("EditingFilename", "Enter")
        /\ Trim(app.filename_input) # <<>>
        /\ Trim(app.filename_input) \notin Titles(db)
        /\ app.view_mode = "Active"
        /\ app.search_query = <<>>)
        => LET title == Trim(app.filename_input)
               sel == get_selected_note(app')
           IN  /\ \E n \in db' : n.title = title /\ n.tags = <<>> /\ n.id = next_id
               /\ sel # <<>> /\ sel[1].title = title
               /\ Len(last'.edits) = 1
               /\ last'.edits[1].id = next_id
               /\ last'.edits[1].wrote = ""
      ]_vars

\* C8: confirming a rename to a title another stored note has is rejected:
\* storage, all_notes and the displayed list are unchanged, the status line
\* holds the error and the mode is Normal
C8_DuplicateRenameRejected ==
    [][(/\ Step("RenamingScript", "Enter")
        /\ Trim(app.filename_input) # <<>>
        /\ get_selected_note(app) # <<>>
        /\ \E n \in db : /\ n.id # get_selected_note(app)[1].id
                         /\ n.title = Trim(app.filename_input))
        => /\ last'.calls = <<<<"rename_note", FALSE>>>>
           /\ db' = db
           /\ app'.status_message = Msg("Error renaming note: {}", DupErr)
           /\ app'.all_notes = all_notes
           /\ app'.notes = notes
           /\ app'.input_mode = "Normal"
      ]_vars

\* C8 witness: a rename was rejected as a duplicate
C8_Witness_Rejected ==
    /\ Pressed("RenamingScript", "Enter")
    /\ app.status_message = Msg("Error renaming note: {}", DupErr)
    /\ app.input_mode = "Normal"
    /\ Len(all_notes) >= 2

\* C9: 'n' or Esc in ConfirmingDelete makes no storage call, leaves storage,
\* all_notes and the selection as they were, and returns to Normal with the
\* status "Deletion cancelled."
C9_DeleteCancelled ==
    [][(Step("ConfirmingDelete", "n") \/ Step("ConfirmingDelete", "Esc"))
        => /\ last'.calls = <<>>
           /\ db' = db
           /\ app'.all_notes = all_notes
           /\ app'.notes = notes
           /\ app'.selected = selected
           /\ app'.input_mode = "Normal"
           /\ app'.status_message = Msg("Deletion cancelled.", NoArg)
      ]_vars

\* C9 witness: a deletion of a stored note was cancelled with 'n'
C9_Witness_Cancelled ==
    /\ Pressed("ConfirmingDelete", "n")
    /\ app.status_message = Msg("Deletion cancelled.", NoArg)
    /\ get_selected_note(app) # <<>>
    /\ db # {}

\* C10: 'y' in ConfirmingDelete removes from storage exactly the note whose
\* title the prompt shows, leaves the other rows as they were, refreshes
\* all_notes to the remaining rows and returns to Normal
C10_DeleteConfirmed ==
    [][Step("ConfirmingDelete", "y")
        => /\ app.status_message[1] = "Delete '{}'? (y/n)"
           /\ \E n \in db : n.title = app.status_message[2]
           /\ db' = {n \in db : n.title # app.status_message[2]}
           /\ Range(app'.all_notes) = db'
           /\ Len(app'.all_notes) = Cardinality(db')
           /\ app'.input_mode = "Normal"
      ]_vars

\* C10 witness: one of two stored notes was deleted, the other remains
C10_Witness_Deleted ==
    /\ Pressed("ConfirmingDelete", "y")
    /\ app.status_message[1] = "Note '{}' deleted."
    /\ Cardinality(db) = 1
    /\ Len(all_notes) = 1
    /\ app.status_message[2] \notin Titles(db)

(***************************************************************************)
(* EditingTags, Enter as a function of the buffer: the program has two     *)
(* notes, one of them selected, and the buffer holds any short text or the *)
(* example of the round trip.                                              *)
(***************************************************************************)
\* longest buffer drawn
MaxBuf == 4

TagChars == {"a", "b", ",", " "}

Alpha == <<"a", "l", "p", "h", "a">>
Beta == <<"b", "e", "t", "a">>
Gamma == <<"g", "a", "m", "m", "a">>

\* "alpha, beta ,, gamma"
ExampleBuffer == Alpha \o <<",", " ">> \o Beta \o <<" ", ",", ",", " ">> \o Gamma

TagBuffers == UNION {[1..m -> TagChars] : m \in 0..MaxBuf} \cup {ExampleBuffer}

\* 't' was pressed on either of two notes and the buffer was then edited
InitTags ==
    /\ \E sel \in 0..1, buf \in TagBuffers :
          LET store == {Note(1, <<"b">>, "x", <<<<"a">>>>, FALSE),
                        Note(2, <<"a">>, "", <<>>, FALSE)}
              c == refresh_notes(Ctx(NewAppState, store, 3, {}), 0)
          IN  /\ app = set_status(
                         update_preview([c.app EXCEPT !.selected = sel,
                                                      !.input_mode = "EditingTags",
                                                      !.filename_input = buf]),
                         Msg("Edit tags (comma separated). [Enter] save, [Esc] cancel.", NoArg))
              /\ db = store
    /\ next_id = 3
    /\ tmp = {}
    /\ result = "Ok(true)"
    /\ last = [mode |-> "Normal", key |-> "t", calls |-> <<>>, edits |-> <<>>]
    /\ keys = 0
    /\ terminal = Tui
    /\ env = [faults |-> FALSE, chars |-> {}]

SpecTags == InitTags /\ [][EditingTagsEnter]_vars

\* the positions that delimit the pieces of a buffer: before it, each comma, after it
CommaCuts(buf) == {0, Len(buf) + 1} \cup {i \in 1..Len(buf) : buf[i] = ","}

\* a piece without its leading and trailing spaces, by the positions of its
\* first and last other character
Stripped(s) ==
    IF \A i \in 1..Len(s) : s[i] = " " THEN <<>>
    ELSE LET lo == CHOOSE i \in 1..Len(s) : s[i] # " " /\ \A j \in 1..(i - 1) : s[j] = " "
             hi == CHOOSE i \in 1..Len(s) : s[i] # " " /\ \A j \in (i + 1)..Len(s) : s[j] = " "
         IN  SubSeq(s, lo, hi)

\* the stripped pieces between consecutive cuts, in buffer order
PiecesOf(buf) ==
    LET cuts == CommaCuts(buf)
        cut(k) == CHOOSE c \in cuts : Cardinality({d \in cuts : d < c}) = k
    IN  [k \in 1..(Cardinality(cuts) - 1) |->
            Stripped(SubSeq(buf, cut(k - 1) + 1, cut(k) - 1))]

ExpectedTags(buf) == SelectSeq(PiecesOf(buf), LAMBDA p : p # <<>>)

\* C11: confirming EditingTags stores, for the selected note and no other,
\* the pieces of the buffer between commas, stripped of surrounding spaces,
\* without the empty ones, in buffer order; no stored tag is empty or starts
\* or ends with a space
C11_TagsParsed ==
    [][(Step("EditingTags", "Enter") /\ get_selected_note(app) # <<>>)
        => LET note == get_selected_note(app)[1]
               tags == ExpectedTags(app.filename_input)
           IN  /\ last'.calls[1] = <<"update_note_tags", TRUE>>
               /\ db' = {IF n.id = note.id THEN [n EXCEPT !.tags = tags] ELSE n : n \in db}
               /\ \A n \in db' : \A i \in 1..Len(n.tags) :
                     /\ n.tags[i] # <<>>
                     /\ n.tags[i][1] # " "
                     /\ n.tags[i][Len(n.tags[i])] # " "
      ]_vars

\* C11 witness: the buffer "alpha, beta ,, gamma" was confirmed and the
\* selected note has the tags alpha, beta, gamma
C11_Witness_Example ==
    /\ Pressed("EditingTags", "Enter")
    /\ app.filename_input = ExampleBuffer
    /\ get_selected_note(app) # <<>>
    /\ get_selected_note(app)[1].tags = <<Alpha, Beta, Gamma>>

\* the modes that act on the selected note
NeedsSelection == {"RenamingScript", "EditingTags", "ConfirmingDelete"}

\* the messages of the three arms when nothing is selected
NoNoteSelected ==
    {Msg("No note selected to delete.", NoArg),
     Msg("No note selected to rename.", NoArg),
     Msg("No note selected.", NoArg)}

\* C12: with no selected note, 'r', 't' and 'd' in Normal mode set a "No note
\* selected" status, stay in Normal, make no storage call and leave the text
\* buffer unchanged; no key event enters RenamingScript, EditingTags or
\* ConfirmingDelete without a selected note, and none is ever active without one
C12_NoSelectionNoMode ==
    [][/\ ((Step("Normal", "r") \/ Step("Normal", "t") \/ Step("Normal", "d"))
           /\ get_selected_note(app) = <<>>)
            => /\ app'.status_message \in NoNoteSelected
               /\ app'.input_mode = "Normal"
               /\ last'.calls = <<>>
               /\ db' = db
               /\ app'.filename_input = app.filename_input
       /\ (app'.input_mode \in NeedsSelection /\ app'.input_mode # app.input_mode)
            => get_selected_note(app) # <<>>
       /\ app'.input_mode \in NeedsSelection => get_selected_note(app') # <<>>
      ]_vars

\* C12 witness: 'd' was pressed with notes stored but none selected (the
\* displayed list is empty) and was refused
C12_Witness_Refused ==
    /\ Pressed("Normal", "d")
    /\ app.status_message = Msg("No note selected to delete.", NoArg)
    /\ app.input_mode = "Normal"
    /\ get_selected_note(app) = <<>>
    /\ db # {}

\* the modes other than Normal
OtherModes ==
    {"EditingFilename", "RenamingScript", "EditingTags", "ConfirmingDelete",
     "Searching", "SelectingTagFilter", "ShowHelp"}

\* C13: one Esc in any mode other than Normal returns to Normal without a
\* storage call; the pending text is discarded: Esc in Searching empties the
\* query, and every entry into a mode that reads filename_input overwrites
\* what an earlier mode left in it ('a' with the empty text, 'r' with the
\* selected title, 't' with the selected note's joined tags)
C13_EscReturnsToNormal ==
    [][/\ \A m \in OtherModes :
            Step(m, "Esc")
            => /\ app'.input_mode = "Normal"
               /\ last'.calls = <<>>
               /\ last'.edits = <<>>
               /\ db' = db
               /\ result' = "Ok(true)"
               /\ m = "Searching" => app'.search_query = <<>>
       /\ (app.input_mode = "Normal" /\ app'.input_mode = "EditingFilename")
            => app'.filename_input = <<>>
       /\ (app.input_mode = "Normal" /\ app'.input_mode = "RenamingScript")
            => app'.filename_input = get_selected_note(app)[1].title
       /\ (app.input_mode = "Normal" /\ app'.input_mode = "EditingTags")
            => app'.filename_input = Join(get_selected_note(app)[1].tags)
       /\ (app.input_mode \notin {"EditingFilename", "RenamingScript", "EditingTags"}
           /\ app'.input_mode = app.input_mode)
            => app'.filename_input = app.filename_input
      ]_vars

\* C13 witness: Esc was pressed in RenamingScript with text pending in the
\* buffer; the mode is Normal and the event made no storage call
C13_Witness_EscWithPendingText ==
    /\ Pressed("RenamingScript", "Esc")
    /\ app.input_mode = "Normal"
    /\ app.filename_input # <<>>
    /\ last.calls = <<>>

(***************************************************************************)
(* The external edit flow.  last.edits records, for each flow a key event  *)
(* ran, the note id, the content written to the artifact, the outcome and  *)
(* the content the editor left.                                            *)
(***************************************************************************)
\* the edit flows of the last key event
Edits == {last.edits[i] : i \in 1..Len(last.edits)}

\* the operations of the storage calls of the last key event
CallOps == {last.calls[i][1] : i \in 1..Len(last.calls)}

\* C14: after a key event that ran the edit flow and wrote the artifact, the
\* artifact no longer exists, whether the editor succeeded, exited non-zero,
\* could not be launched, or the artifact could not be read back
C14_ArtifactRemoved ==
    \A e \in Edits :
        e.out \in {"ok", "nonzero", "launch_fail", "read_fail"} => e.id \notin tmp

\* C15: when the editor exits non-zero or cannot be launched, the key event
\* issues no content update, the note still has the content that was written
\* to the artifact, the status line says so, and the control loop goes on
C15_EditorFailureKeepsContent ==
    \A e \in Edits :
        e.out \in {"nonzero", "launch_fail"}
        => /\ "update_note_content" \notin CallOps
           /\ \E n \in db : n.id = e.id /\ n.content = e.wrote
           /\ app.status_message = Msg("Editor exited with error.", NoArg)
           /\ result = "Ok(true)"

\* C15 witness: the editor could not be launched on a note with content
C15_Witness_LaunchFailed ==
    /\ Pressed("Normal", "e")
    /\ \E e \in Edits : e.out = "launch_fail" /\ e.wrote = "x"
    /\ result = "Ok(true)"

\* C16: when the editor exits successfully, the note the flow was started on
\* (by id) gets exactly the content read back from the artifact and keeps its
\* title and tags; every other stored note is as it was before the key event
C16_EditStoresContent ==
    [][\A i \in 1..Len(last'.edits) :
          LET e == last'.edits[i]
          IN  e.out = "ok"
              => /\ \E n \in db' : n.id = e.id /\ n.content = e.read
                 /\ \A n \in db : n.id = e.id =>
                       [n EXCEPT !.content = e.read] \in db'
                 /\ \A n \in db : n.id # e.id => n \in db'
                 /\ \A n \in db' : n.id # e.id => n \in db
      ]_vars

\* C16 witness: of two stored notes, the one with content was edited to the
\* empty content and the other still has its own
C16_Witness_Edited ==
    /\ Pressed("Normal", "e")
    /\ \E e \in Edits : /\ e.out = "ok" /\ e.wrote = "x" /\ e.read = ""
                        /\ \E n \in db : n.id = e.id /\ n.content = ""
    /\ Cardinality(db) = 2

(***************************************************************************)
(* Refresh after mutation and storage failures, under SpecFaulty: any      *)
(* storage call of a key event may fail.                                   *)
(***************************************************************************)
\* the storage calls that change rows
Mutations ==
    {"create_note", "rename_note", "delete_note", "update_note_tags",
     "update_archive_status", "update_note_content"}

\* all_notes holds exactly the stored rows
InSync == Range(all_notes) = db /\ Len(all_notes) = Cardinality(db)

\* every successful mutation of the last key event has a list-all after it
MutationsRefreshed ==
    \A i \in 1..Len(last.calls) :
        (last.calls[i][1] \in Mutations /\ last.calls[i][2])
        => \E j \in (i + 1)..Len(last.calls) : last.calls[j][1] = "get_all_notes"

\* the last key event changed rows
Mutated == \E i \in 1..Len(last.calls) : last.calls[i][1] \in Mutations /\ last.calls[i][2]

\* the last storage call of the last key event is a list-all
EndsWithRefresh ==
    last.calls # <<>> /\ last.calls[Len(last.calls)][1] = "get_all_notes"

ErrorStatus(e) ==
    {Msg(t, e) : t \in {"Error creating note: {}", "Error renaming note: {}",
                        "Error deleting note: {}", "Error updating tags: {}",
                        "Error updating archive status: {}", "DB Error: {}"}}

\* the step leaves all_notes, the displayed list and the selection as they were
ViewUnchanged ==
    /\ app'.all_notes = all_notes
    /\ app'.notes = notes
    /\ app'.selected = selected

\* C18 as claimed: when a create, rename, delete, tag update, archive toggle
\* or list-all of a key event fails, all_notes, the displayed list and the
\* selection are as before the key event and the status line holds the error
C18_FailureAbandons ==
    [][(/\ keys' = keys + 1
        /\ \E i \in 1..Len(last'.calls) :
              /\ ~last'.calls[i][2]
              /\ last'.calls[i][1] # "update_note_content")
        => /\ ViewUnchanged
           /\ app'.status_message \in ErrorStatus(ConnErr) \cup ErrorStatus(DupErr)
      ]_vars

\* C18 amended: when the create, rename, delete, tag update or archive
\* toggle call itself fails, the key event makes no further storage call,
\* storage, all_notes, the displayed list and the selection are as before the
\* key event and the status line holds the error; when the list-all of the
\* refresh after a successful delete, tag update or archive toggle fails,
\* all_notes, the displayed list and the selection are as before the key
\* event and the status line holds the error
C18_FailedCallAbandons ==
    [][(keys' = keys + 1 /\ last'.calls # <<>>)
        => LET first == last'.calls[1]
           IN  /\ (first[1] \in Mutations \ {"update_note_content"} /\ ~first[2])
                    => /\ Len(last'.calls) = 1
                       /\ db' = db
                       /\ ViewUnchanged
                       /\ app'.status_message \in ErrorStatus(ConnErr) \cup ErrorStatus(DupErr)
               /\ (/\ first[1] \in {"delete_note", "update_note_tags", "update_archive_status"}
                   /\ first[2]
                   /\ Len(last'.calls) = 2
                   /\ last'.calls[2] = <<"get_all_notes", FALSE>>)
                    => /\ ViewUnchanged
                       /\ app'.status_message = Msg("DB Error: {}", ConnErr)
      ]_vars

\* C18 witness: a delete succeeded in storage and the list-all of its refresh
\* failed: the view still shows the deleted note and the status is the error
C18_Witness_RefreshFailed ==
    /\ Pressed("ConfirmingDelete", "y")
    /\ last.calls = <<<<"delete_note", TRUE>>, <<"get_all_notes", FALSE>>>>
    /\ app.status_message = Msg("DB Error: {}", ConnErr)
    /\ Len(all_notes) = Cardinality(db) + 1

(***************************************************************************)
(* The selection across a refresh, for the key events whose handler ends   *)
(* with the refresh: delete, tag update and the edit flow.                 *)
(***************************************************************************)
\* the step is such a key event, and its list-all succeeded
RefreshStep ==
    /\ \/ Step("ConfirmingDelete", "y")
       \/ Step("EditingTags", "Enter")
       \/ Step("Normal", "e")
       \/ Step("Normal", "Enter")
    /\ \E i \in 1..Len(last'.calls) : last'.calls[i] = <<"get_all_notes", TRUE>>

\* C19 as claimed: on a refresh, if the note selected before it (by id) is no
\* longer displayed, the selection becomes index 0, or None when the
\* displayed list is empty
C19_ResetWhenSelectedGone ==
    [][(/\ RefreshStep
        /\ get_selected_note(app) # <<>>
        /\ \A i \in 1..Len(app'.notes) : app'.notes[i].id # get_selected_note(app)[1].id)
        => app'.selected = IF app'.notes = <<>> THEN NoSel ELSE 0
      ]_vars

\* C19 amended: on a refresh the selection is validated by index, not by id:
\* an index that is still inside the displayed list is kept, whichever note
\* is now at it; an index outside it (or no selection) becomes index 0, or
\* None when the displayed list is empty
C19_ResetWhenIndexInvalid ==
    [][RefreshStep
        => app'.selected =
              IF selected # NoSel /\ selected < Len(app'.notes) THEN selected
              ELSE IF app'.notes # <<>> THEN 0
              ELSE NoSel
      ]_vars

\* C19 witness: the note at the last of several indices was deleted; its
\* index fell outside the displayed list and the selection went to index 0
C19_Witness_ResetToFirst ==
    /\ Pressed("ConfirmingDelete", "y")
    /\ Refreshed
    /\ app.status_message[1] = "Note '{}' deleted."
    /\ notes # <<>>
    /\ \A i \in 1..Len(notes) : StrLess(notes[i].title, app.status_message[2])
    /\ selected = 0

\* the preview the selection of an application state calls for
ExpectedPreview(a) ==
    IF get_selected_note(a) # <<>> THEN get_selected_note(a)[1].content
    ELSE "No notes found."

\* C20 as claimed, for the key events read outside Searching that end in the
\* Active view with an empty search query: a key event that starts with the
\* preview buffer holding the content of the selected note (or the
\* placeholder when none is selected) ends with it holding the content of the
\* note then selected (or the placeholder)
C20_PreviewFollowsSelection ==
    [][(/\ keys' = keys + 1
        /\ app.input_mode # "Searching"
        /\ app.script_content_preview = ExpectedPreview(app)
        /\ app'.view_mode = "Active"
        /\ app'.search_query = <<>>)
        => app'.script_content_preview = ExpectedPreview(app')
      ]_vars

(***************************************************************************)
(* Searching and the tag-filter selector.                                  *)
(***************************************************************************)
\* note n passes the tag filter and the archive view of application state a,
\* spelled out from the data model
PassesFilterIn(a, n) ==
    /\ \/ a.active_filter.kind = "All"
       \/ a.active_filter.kind = "Untagged" /\ Len(n.tags) = 0
       \/ a.active_filter.kind = "Specific" /\ a.active_filter.tag \in Range(n.tags)
    /\ (a.view_mode = "Archived") <=> n.archived

\* the title of n contains the text q
TitleContains(n, q) ==
    \/ q = <<>>
    \/ \E i \in 1..Len(n.title) : \E j \in i..Len(n.title) : SubSeq(n.title, i, j) = q

\* C21 as claimed: Esc in Searching empties the query, leaves displayed the
\* notes passing the active filter (tag filter and archive view) whatever
\* their title, puts the selection on index 0, or on None when the displayed
\* list is empty, and returns to Normal
C21_SearchEscResets ==
    [][Step("Searching", "Esc")
        => /\ app'.search_query = <<>>
           /\ Range(app'.notes) = {n \in Range(all_notes) : PassesFilterIn(app, n)}
           /\ app'.selected = IF app'.notes = <<>> THEN NoSel ELSE 0
           /\ app'.input_mode = "Normal"
      ]_vars

MaxTags == 2

TagPool == {<<>>, <<"a">>, <<"b">>, <<"a", "b">>}

TagLists == UNION {[1..m -> TagPool] : m \in 0..MaxTags}

\* the options and cursor an earlier opening of the selector left
StaleOptions ==
    {[filters |-> <<>>, cursor |-> NoSel],
     [filters |-> <<FilterAll, FilterUntagged, Specific(<<"b", "b">>)>>, cursor |-> 2]}

InitSelector ==
    /\ \E t1 \in TagLists, t2 \in TagLists, old \in StaleOptions :
          LET store == {Note(1, <<"b">>, "x", t1, FALSE), Note(2, <<"a">>, "", t2, FALSE)}
              c == refresh_notes(Ctx(NewAppState, store, 3, {}), 0)
          IN  /\ app = [c.app EXCEPT !.available_filters = old.filters,
                                     !.filter_selected = old.cursor]
              /\ db = store
    /\ next_id = 3
    /\ tmp = {}
    /\ result = "Ok(true)"
    /\ last = [mode |-> "Normal", key |-> "start", calls |-> <<>>, edits |-> <<>>]
    /\ keys = 0
    /\ terminal = Tui
    /\ env = [faults |-> FALSE, chars |-> {}]

SpecSelector == InitSelector /\ [][NormalTagSelector]_vars

\* the non-empty tags occurring in a note of all_notes
TagsInUse == {t \in UNION {Range(n.tags) : n \in Range(all_notes)} : t # <<>>}

\* C23: 'T' recomputes the filter options from the current all_notes: All,
\* Untagged, then one Specific option per distinct non-empty tag of any note,
\* each once, in strictly ascending tag order; the filter cursor is on the
\* first option and the mode is SelectingTagFilter
C23_FilterOptionsRecomputed ==
    [][Step("Normal", "T")
        => LET fs == app'.available_filters
           IN  /\ Len(fs) = 2 + Cardinality(TagsInUse)
               /\ fs[1] = FilterAll
               /\ fs[2] = FilterUntagged
               /\ \A i \in 3..Len(fs) : fs[i].kind = "Specific" /\ fs[i].tag \in TagsInUse
               /\ \A i, j \in 3..Len(fs) : i < j => StrLess(fs[i].tag, fs[j].tag)
               /\ app'.filter_selected = 0
               /\ app'.input_mode = "SelectingTagFilter"
               /\ app'.all_notes = all_notes
      ]_vars

\* C23 witness: the selector was opened over two notes that share a tag,
\* one listing its tags out of order and one holding an empty tag, replacing
\* the options of an earlier opening; the two tags in use are offered in order
C23_Witness_SharedTags ==
    /\ Pressed("Normal", "T")
    /\ app.available_filters =
          <<FilterAll, FilterUntagged, Specific(<<"a">>), Specific(<<"b">>)>>
    /\ \E n \in Range(all_notes) : n.tags = <<<<"b">>, <<"a">>>>
    /\ \E n \in Range(all_notes) : n.tags = <<<<>>, <<"b">>>>

\* C24: Enter in SelectingTagFilter makes the option under the filter cursor
\* the active filter, leaves displayed exactly the notes of all_notes that
\* pass it (within the search query), puts the note selection on index 0, or
\* on None when the displayed list is empty, and returns to Normal
C24_FilterConfirmed ==
    [][Step("SelectingTagFilter", "Enter")
        => /\ app.filter_selected \in 0..(Len(app.available_filters) - 1)
           /\ app'.active_filter = app.available_filters[app.filter_selected + 1]
           /\ Range(app'.notes) =
                 {n \in Range(all_notes) :
                     PassesFilterIn(app', n) /\ TitleContains(n, app.search_query)}
           /\ app'.selected = IF app'.notes = <<>> THEN NoSel ELSE 0
           /\ app'.input_mode = "Normal"
      ]_vars

\* C24 witness: the Untagged option was confirmed over notes that all carry
\* tags: nothing is displayed and nothing is selected
C24_Witness_UntaggedEmpty ==
    /\ Pressed("SelectingTagFilter", "Enter")
    /\ app.active_filter = FilterUntagged
    /\ all_notes # <<>>
    /\ notes = <<>>
    /\ selected = NoSel

\* C25: opening the selector and moving its cursor leave the active filter,
\* the displayed list and the note selection as they are, and Esc or 'q'
\* returns to Normal leaving them as they are: after a cancelled selection
\* they are what they were before 'T' was pressed
C25_FilterCancelled ==
    [][/\ (\/ Step("Normal", "T")
           \/ Step("SelectingTagFilter", "j")
           \/ Step("SelectingTagFilter", "k")
           \/ Step("SelectingTagFilter", "Esc")
           \/ Step("SelectingTagFilter", "q")
           \/ Step("SelectingTagFilter", "Tab"))
            => /\ app'.active_filter = app.active_filter
               /\ app'.notes = notes
               /\ app'.selected = selected
               /\ app'.all_notes = all_notes
       /\ (Step("SelectingTagFilter", "Esc") \/ Step("SelectingTagFilter", "q"))
            => app'.input_mode = "Normal"
       /\ (Step("SelectingTagFilter", "j") \/ Step("SelectingTagFilter", "k"))
            => app'.input_mode = "SelectingTagFilter"
      ]_vars

\* C25 witness: the selector was cancelled with its cursor moved onto a
\* Specific option while the active filter is still All
C25_Witness_CancelledAfterMove ==
    /\ Pressed("SelectingTagFilter", "Esc")
    /\ app.input_mode = "Normal"
    /\ app.filter_selected >= 2
    /\ app.active_filter = FilterAll
    /\ notes # <<>>

\* the text holds nothing but spaces
Blank(s) == \A i \in 1..Len(s) : s[i] = " "

\* C26: Enter in EditingFilename or RenamingScript with an empty or
\* whitespace-only buffer makes no storage call, leaves storage and all_notes
\* unchanged and returns to Normal; a storage call is made only when the
\* buffer holds a character other than a space
C26_EmptyTitleNoCall ==
    [][(Step("EditingFilename", "Enter") \/ Step("RenamingScript", "Enter"))
        => /\ Blank(app.filename_input)
                => /\ last'.calls = <<>>
                   /\ last'.edits = <<>>
                   /\ db' = db
                   /\ app'.all_notes = all_notes
                   /\ app'.input_mode = "Normal"
           /\ last'.calls # <<>> => ~Blank(app.filename_input)
      ]_vars

\* C26 witness: a new-note title of one space was confirmed and nothing was stored
C26_Witness_WhitespaceTitle ==
    /\ Pressed("EditingFilename", "Enter")
    /\ app.filename_input = <<" ">>
    /\ last.calls = <<>>
    /\ app.input_mode = "Normal"
    /\ \A n \in db : n.title # <<" ">> /\ n.title # <<>>

(***************************************************************************)
(* Renaming with or without a search applied: the program was started, a   *)
(* search for "a" (or for nothing) was typed and kept with Enter, and the  *)
(* user then navigates and renames.                                        *)
(***************************************************************************)
InitSearched ==
    /\ \E store \in InitialStores, q \in {<<>>, <<"a">>} :
          LET c == refresh_notes(Ctx(NewAppState, store, Cardinality(store) + 1, {}), 0)
              typed == IF q = <<>> THEN c.app ELSE SearchPush(c.app, q[1])
          IN  /\ app = set_status([typed EXCEPT !.input_mode = "Normal"],
                                  Msg("Search applied: '{}'", q))
              /\ db = c.db
              /\ next_id = c.next_id
    /\ tmp = {}
    /\ result = "Ok(true)"
    /\ last = [mode |-> "Searching", key |-> "Enter", calls |-> <<>>, edits |-> <<>>]
    /\ keys = 0
    /\ terminal = Tui
    /\ env = [faults |-> FALSE, chars |-> TypedChars]

NextRenaming ==
    \/ NormalNext \/ NormalRename
    \/ RenamingScriptEnter \/ RenamingScriptEsc \/ RenamingScriptBackspace
    \/ RenamingScriptChar

SpecRenaming == InitSearched /\ [][NextRenaming]_vars

\* the step is a rename that storage accepted and whose refresh succeeded
RenamedStep ==
    /\ Step("RenamingScript", "Enter")
    /\ last'.calls = <<<<"rename_note", TRUE>>, <<"get_all_notes", TRUE>>>>

ViewStep ==
    \/ Step("Normal", "j") \/ Step("Normal", "k")
    \/ Step("Normal", "/") \/ Step("Normal", "T") \/ Step("Normal", "v") \/ Step("Normal", "?")
    \/ app.input_mode \in {"Searching", "SelectingTagFilter", "ShowHelp"} /\ keys' = keys + 1

\* C28: navigation, search keystrokes, opening and confirming the tag-filter
\* selector, toggling the archive view and help make no storage call and
\* leave the stored rows and all_notes as they are; the displayed list stays
\* made of notes of all_notes
C28_ViewOperationsLocal ==
    [][ViewStep
        => /\ last'.calls = <<>>
           /\ last'.edits = <<>>
           /\ db' = db
           /\ app'.all_notes = all_notes
           /\ Range(app'.notes) \subseteq Range(all_notes)
      ]_vars

\* C28 witness: the archive view was toggled over stored active notes: the
\* displayed list is empty while all_notes still holds every stored row
C28_Witness_ViewToggled ==
    /\ Pressed("Normal", "v")
    /\ app.view_mode = "Archived"
    /\ notes = <<>>
    /\ db # {}
    /\ InSync

(***************************************************************************)
(* Typing in the text modes, with the characters that are commands in      *)
(* other modes.                                                            *)
(***************************************************************************)
CommandChars == {"q", "y", "n", "?", "a"}

InitTyping == Start(InitialStores, FALSE, CommandChars)

NextTyping ==
    \/ NormalAdd \/ NormalRename \/ NormalTags \/ NormalSearch
    \/ EditingFilenameChar \/ EditingFilenameBackspace \/ EditingFilenameEsc
    \/ RenamingScriptChar \/ RenamingScriptBackspace \/ RenamingScriptEsc
    \/ EditingTagsChar \/ EditingTagsBackspace \/ EditingTagsEsc
    \/ SearchingChar \/ SearchingBackspace \/ SearchingEnter

SpecTyping == InitTyping /\ [][NextTyping]_vars

\* a text without its last character; the empty text stays empty
WithoutLast(s) == IF Len(s) = 0 THEN s ELSE [i \in 1..(Len(s) - 1) |-> s[i]]

\* C29: in EditingFilename, RenamingScript and EditingTags a character key
\* appends the character to filename_input and Backspace removes its last
\* character (nothing from the empty buffer); in Searching the same holds of
\* search_query; none of these changes the mode, the selection or storage,
\* whichever character it is, 'q', 'y', 'n' and '?' included
C29_TextEditing ==
    [][/\ \A m \in {"EditingFilename", "RenamingScript", "EditingTags"} :
            /\ \A ch \in CommandChars :
                  Step(m, ch) => app'.filename_input = Append(app.filename_input, ch)
            /\ Step(m, "Backspace") => app'.filename_input = WithoutLast(app.filename_input)
       /\ \A ch \in CommandChars :
            Step("Searching", ch) => app'.search_query = Append(app.search_query, ch)
       /\ Step("Searching", "Backspace") => app'.search_query = WithoutLast(app.search_query)
       /\ (/\ app.input_mode \in {"EditingFilename", "RenamingScript", "EditingTags", "Searching"}
           /\ keys' = keys + 1
           /\ last'.key \in CommandChars \cup {"Backspace"})
            => /\ app'.input_mode = app.input_mode
               /\ app'.selected = selected
               /\ db' = db
               /\ last'.calls = <<>>
               /\ result' = "Ok(true)"
      ]_vars

\* C29 witness: '?' then 'q' were typed into the new-note title
C29_Witness_CommandCharsTyped ==
    /\ Pressed("EditingFilename", "q")
    /\ app.input_mode = "EditingFilename"
    /\ app.filename_input = <<"?", "q">>

(***************************************************************************)
(* Editing tags again: after a tag edit was confirmed with any buffer, 't' *)
(* is pressed on the same note and confirmed at once.                      *)
(***************************************************************************)
SpecTagsAgain == InitTags /\ [][EditingTagsEnter \/ NormalTags]_vars

\* where the k-th tag starts in the joined text, counted from 0
RECURSIVE JoinOffset(_, _)
JoinOffset(tags, k) ==
    IF k = 1 THEN 0 ELSE JoinOffset(tags, k - 1) + Len(tags[k - 1]) + 2

\* buf is the tags written one after the other with ", " between neighbours
IsJoinOf(buf, tags) ==
    IF tags = <<>> THEN buf = <<>>
    ELSE /\ Len(buf) = JoinOffset(tags, Len(tags)) + Len(tags[Len(tags)])
         /\ \A k \in 1..Len(tags) : \A j \in 1..Len(tags[k]) :
               buf[JoinOffset(tags, k) + j] = tags[k][j]
         /\ \A k \in 1..(Len(tags) - 1) :
               /\ buf[JoinOffset(tags, k) + Len(tags[k]) + 1] = ","
               /\ buf[JoinOffset(tags, k) + Len(tags[k]) + 2] = " "

\* C30: 't' on a selected note enters EditingTags with the buffer holding the
\* note's tags joined by ", "; when the note's tags were stored by a tag edit
\* and Enter is the next key, the tag update is issued and every stored row,
\* the note's tag list and its order included, is as before
C30_TagEditIdempotent ==
    [][/\ (Step("Normal", "t") /\ get_selected_note(app) # <<>>)
            => /\ IsJoinOf(app'.filename_input, get_selected_note(app)[1].tags)
               /\ app'.input_mode = "EditingTags"
       /\ (Step("EditingTags", "Enter") /\ keys > 0 /\ Pressed("Normal", "t"))
            => /\ last'.calls[1] = <<"update_note_tags", TRUE>>
               /\ db' = db
               /\ get_selected_note(app')[1].tags = get_selected_note(app)[1].tags
      ]_vars

\* C30 witness: "alpha, beta ,, gamma" was stored as three tags, 't' showed
\* them as "alpha, beta, gamma", and Enter stored the same three tags
C30_Witness_Restored ==
    /\ Pressed("EditingTags", "Enter")
    /\ keys = 3
    /\ app.filename_input = Alpha \o <<",", " ">> \o Beta \o <<",", " ">> \o Gamma
    /\ get_selected_note(app)[1].tags = <<Alpha, Beta, Gamma>>

\* C31: confirming a new title that a stored note already has is rejected by
\* storage and shown, not propagated: the only storage call is the failed
\* create, the status line holds the error, storage, all_notes, the displayed
\* list and the selection are unchanged, no edit flow is entered, the mode is
\* Normal and handle_key_event returns Ok(true)
C31_DuplicateCreateRecovered ==
    [][(/\ Step("EditingFilename", "Enter")
        /\ Trim(app.filename_input) \in Titles(db))
        => /\ last'.calls = <<<<"create_note", FALSE>>>>
           /\ app'.status_message = Msg("Error creating note: {}", DupErr)
           /\ db' = db
           /\ next_id' = next_id
           /\ app'.all_notes = all_notes
           /\ app'.notes = notes
           /\ app'.selected = selected
           /\ last'.edits = <<>>
           /\ tmp' = tmp
           /\ app'.input_mode = "Normal"
           /\ result' = "Ok(true)"
      ]_vars

\* C31 witness: with two notes displayed and the second one selected, a
\* create was rejected as a duplicate and the control loop goes on
C31_Witness_Rejected ==
    /\ Pressed("EditingFilename", "Enter")
    /\ app.status_message = Msg("Error creating note: {}", DupErr)
    /\ Trim(app.filename_input) \in Titles(db)
    /\ Len(notes) = 2 /\ selected = 1
    /\ result = "Ok(true)"

(***************************************************************************)
(* The terminal around the editor step.                                    *)
(***************************************************************************)
\* every combination of terminal modes
Terminals == [raw : BOOLEAN, mouse : BOOLEAN, alt : BOOLEAN]

\* the editor's outcomes: exit zero (the artifact then read or not), exit
\* non-zero, and the command that cannot be launched
EditorOutcomes == {"ok", "read_fail", "nonzero", "launch_fail"}

\* C32: after an edit flow in which the editor step had an outcome (exit zero,
\* exit non-zero, or the command failed to launch) raw mode and mouse capture
\* are enabled; and open_editor, entered in any terminal modes, returns with
\* both enabled and with Ok(true) exactly for exit zero, Ok(false) otherwise
C32_TerminalRestored ==
    /\ \A ed \in Edits : ed.out \in EditorOutcomes => terminal.raw /\ terminal.mouse
    /\ \A t \in Terminals, e \in EditInputs :
          e.out \in EditorOutcomes =>
              LET oe == open_editor(t, e)
              IN  /\ oe.term.raw /\ oe.term.mouse
                  /\ oe.res = IF e.out \in {"ok", "read_fail"} THEN "Ok(true)"
                              ELSE "Ok(false)"

\* C32 witness: the editor could not be launched, the flow reported it, and the
\* interface is back in raw mode with mouse capture
C32_Witness_LaunchFailedRestored ==
    /\ \E ed \in Edits : ed.out = "launch_fail"
    /\ app.status_message = Msg("Editor exited with error.", NoArg)
    /\ terminal.raw /\ terminal.mouse
    /\ result = "Ok(true)"

(***************************************************************************)
(* The quit key: 'q' is the only character typed, and it is pressed in     *)
(* every mode.                                                             *)
(***************************************************************************)
\* ConfirmingDelete, a key other than 'y', 'n', Esc: the `_ => {}` arm
ConfirmingDeleteOther ==
    /\ InMode("ConfirmingDelete")
    /\ Return(Begin, "q", "Ok(true)")

InitQuit == Start(InitialStores, FALSE, {"q"})

NextQuit ==
    \/ NormalQuit \/ NormalNext \/ NormalAdd \/ NormalDelete \/ NormalRename
    \/ NormalTags \/ NormalTagSelector \/ NormalSearch \/ NormalHelp
    \/ SearchingChar \/ SearchingEnter
    \/ EditingFilenameChar \/ EditingFilenameEsc
    \/ EditingTagsChar \/ EditingTagsEsc
    \/ RenamingScriptChar \/ RenamingScriptEsc
    \/ ConfirmingDeleteOther \/ ConfirmingDeleteNo
    \/ SelectingTagFilterNext \/ SelectingTagFilterEsc
    \/ ShowHelpClose

SpecQuit == InitQuit /\ [][NextQuit]_vars

\* the modes whose keys edit the shared text buffer
BufferModes == {"EditingFilename", "EditingTags", "RenamingScript"}

\* C33: a key event returns Ok(false) only when it is 'q' read in Normal, and
\* 'q' read in Normal does return it; 'q' read in ShowHelp or
\* SelectingTagFilter returns to Normal, read in a text mode it is appended to
\* that mode's buffer and the mode stays, read in ConfirmingDelete it changes
\* nothing; and in all those modes the control loop continues
C33_QuitOnlyFromNormal ==
    [][(keys' = keys + 1) =>
        /\ result' = "Ok(false)" <=> (last'.mode = "Normal" /\ last'.key = "q")
        /\ (last'.key = "q" /\ last'.mode \in {"ShowHelp", "SelectingTagFilter"})
              => app'.input_mode = "Normal"
        /\ (last'.key = "q" /\ last'.mode \in BufferModes)
              => /\ app'.filename_input = Append(app.filename_input, "q")
                 /\ app'.input_mode = app.input_mode
        /\ (last'.key = "q" /\ last'.mode = "Searching")
              => /\ app'.search_query = Append(app.search_query, "q")
                 /\ app'.input_mode = "Searching"
        /\ (last'.key = "q" /\ last'.mode = "ConfirmingDelete")
              => app' = app /\ db' = db
      ]_vars

\* C33 witness: 'q' was read in ConfirmingDelete and the confirmation is still
\* pending with the control loop running
C33_Witness_IgnoredInConfirm ==
    /\ Pressed("ConfirmingDelete", "q")
    /\ app.input_mode = "ConfirmingDelete"
    /\ result = "Ok(true)"
    /\ get_selected_note(app) # <<>>

(***************************************************************************)
(* The shape of the mode machine.                                          *)
(***************************************************************************)
\* the Esc arms: every mode but Normal has one
EscKey ==
    \/ SearchingEsc \/ EditingFilenameEsc \/ EditingTagsEsc \/ ConfirmingDeleteNo
    \/ RenamingScriptEsc \/ SelectingTagFilterEsc \/ ShowHelpClose

\* the mode is Normal, or the Esc key can be read now and ends in Normal
OneKeyFromNormal ==
    \/ app.input_mode = "Normal"
    \/ ENABLED (EscKey /\ app'.input_mode = "Normal")

\* C34: a key event leaves the mode as it is, or leaves Normal, or enters
\* Normal, never going from one non-Normal mode to another; and whenever the
\* control loop reads a key, one key event is enough to be in Normal
C34_ModesThroughNormal ==
    /\ [][(keys' = keys + 1) =>
            \/ app'.input_mode = app.input_mode
            \/ app.input_mode = "Normal"
            \/ app'.input_mode = "Normal"]_vars
    /\ [](Running => OneKeyFromNormal)

\* C34 witness: every non-Normal mode but one was entered from Normal and left
\* for Normal; here the tag selector, left by confirming a filter
C34_Witness_SelectorLeft ==
    /\ Pressed("SelectingTagFilter", "Enter")
    /\ app.input_mode = "Normal"
    /\ app.active_filter # FilterAll
    /\ keys >= 3

(***************************************************************************)
(* The modes that act on the selected note.                                *)
(***************************************************************************)
GuardedModes == {"RenamingScript", "EditingTags", "ConfirmingDelete"}

\* the storage call each of these modes makes on confirmation
ConfirmCall(m) ==
    CASE m = "RenamingScript" -> "rename_note"
      [] m = "EditingTags" -> "update_note_tags"
      [] m = "ConfirmingDelete" -> "delete_note"

\* C35: a key event that ends in RenamingScript, EditingTags or
\* ConfirmingDelete ends with a note selected; one read in such a mode that
\* stays in it leaves the selection and the displayed list as they were; and
\* one read in such a mode that calls storage calls the mode's operation, once
\* and before any refresh, on the selected note: no other stored row changes,
\* and a delete removes the row with the selected id
C35_ConfirmOnEnteredNote ==
    [][(keys' = keys + 1) =>
        /\ app'.input_mode \in GuardedModes => get_selected_note(app') # <<>>
        /\ (app.input_mode \in GuardedModes /\ app'.input_mode = app.input_mode)
              => /\ app'.selected = selected
                 /\ app'.notes = notes
                 /\ last'.calls = <<>>
        /\ (app.input_mode \in GuardedModes /\ last'.calls # <<>>)
              => LET id == get_selected_note(app)[1].id
                 IN  /\ last'.calls[1][1] = ConfirmCall(app.input_mode)
                     /\ \A i \in 2..Len(last'.calls) : last'.calls[i][1] = "get_all_notes"
                     /\ {n \in db' : n.id # id} = {n \in db : n.id # id}
                     /\ (app.input_mode = "ConfirmingDelete" /\ last'.calls[1][2])
                           => \A n \in db' : n.id # id
      ]_vars

\* C35 witness: the second displayed note was selected, its tag editor opened,
\* the pre-filled text deleted, and Enter cleared the tags of that note
C35_Witness_SecondNoteEdited ==
    /\ Pressed("EditingTags", "Enter")
    /\ last.calls[1] = <<"update_note_tags", TRUE>>
    /\ selected = 1
    /\ app.filename_input = <<>>
    /\ get_selected_note(app) # <<>>
    /\ get_selected_note(app)[1].id = 1
    /\ get_selected_note(app)[1].tags = <<>>

(***************************************************************************)
(* The cursor of the tag selector.                                         *)
(***************************************************************************)
filters == app.available_filters
cursor == app.filter_selected

\* C36: whenever the mode is SelectingTagFilter the options start with All
\* and Untagged and the cursor is an index into them; 'j' moves the cursor to
\* the next option and from the last one to the first, 'k' to the previous
\* option and from the first one to the last, and neither changes the options
C36_FilterCursorValid ==
    /\ [](app.input_mode = "SelectingTagFilter" =>
            /\ Len(filters) >= 2
            /\ filters[1] = FilterAll
            /\ filters[2] = FilterUntagged
            /\ cursor \in 0..(Len(filters) - 1))
    /\ [][/\ Step("SelectingTagFilter", "j")
               => /\ app'.filter_selected = (cursor + 1) % Len(filters)
                  /\ app'.available_filters = filters
          /\ Step("SelectingTagFilter", "k")
               => /\ app'.filter_selected = (cursor + Len(filters) - 1) % Len(filters)
                  /\ app'.available_filters = filters
         ]_vars

\* C36 witness: with three or more options, 'j' on the last one put the
\* cursor back on the first
C36_Witness_WrappedForward ==
    /\ Pressed("SelectingTagFilter", "j")
    /\ app.input_mode = "SelectingTagFilter"
    /\ Len(filters) >= 3
    /\ cursor = 0

====
